---- MODULE Spec2Model ----
(***************************************************************************)
(* Model of rovodev-proxy.ts: the request queue (enqueue), the backend     *)
(* session driver (sendAndStream, setMessage, waitForAgentIdle) and the    *)
(* four request handlers behind /v1/chat/completions and /v1/responses.    *)
(*                                                                         *)
(* Four specifications share the variables:                                *)
(*   Spec      the server: NumCalls client calls arriving concurrently     *)
(*   TurnSpec  one client call, with the backend traffic of its turn       *)
(*             recorded in the history variable trace                      *)
(*   QSpec     enqueue alone, driven with arbitrary thunks                 *)
(*   StreamSpec  the transformStream of one streaming call, fed the lines  *)
(*             of the backend event stream chunk by chunk                  *)
(***************************************************************************)
EXTENDS Integers, Sequences, FiniteSets, TLC

\* ---------------------------------------------------------------- bounds
NumCalls == 2
NumThunks == 3
MaxPolls == 2
MaxLines == 3
MaxChunkLines == 2
MaxBodyLines == 2

\* ------------------------------------------------------ program constants
maxRetries == 4
interval == 1500
WaitTop == 30000
WaitSubmit == 15000

Calls == 1..NumCalls
Thunks == 1..NumThunks
Ids == 1..(IF NumCalls > NumThunks THEN NumCalls ELSE NumThunks)

VARIABLES
  pc,       \* pc[c]: position of call c (of thunk c in QSpec)
  req,      \* req[c]: the parsed request of call c
  attempt,  \* attempt[c]: loop variable of sendAndStream
  polls,    \* polls[c]: sleeps done by the running waitForAgentIdle
  waitMs,   \* waitMs[c]: maxWaitMs of the running waitForAgentIdle, 0 if none
  queue,    \* the thunks chained on requestQueue, in enqueue order
  reply,    \* reply[c]: the promise handed to the caller of call c
  body,     \* body[c]: the backend event stream handed to call c
  nBusy,    \* nBusy[c]: stream-open calls of the running turn answered 409
  allBusy,  \* allBusy[c]: the turn of c ended with all maxRetries stream-opens busy
  trace,    \* TurnSpec only: backend operations of the turn, with answers
  handler,      \* StreamSpec: the streaming handler whose transformStream is piped
  tstate,       \* StreamSpec: state of that transformStream
  buffer,       \* closure state: the last, incomplete line received
  doneSent,     \* closure state of handleStreamingCompletion
  fullText,     \* closure state of handleStreamingResponsesViaCompletions
  preambleSent, \* closure state of handleStreamingResponsesViaCompletions
  seqNum,       \* closure state of handleStreamingResponsesViaCompletions
  usageData,    \* closure state of handleStreamingResponsesViaCompletions
  out,          \* what controller.enqueue has passed to the client, in order
  fed,          \* history: the backend lines the handler has gone through
  wire,         \* ChunkSpec: the bytes of the backend body still to arrive
  whole,        \* ChunkSpec: the backend body
  rawLines,     \* ChunkSpec: history, the complete lines split off the buffer
  sessions,     \* SessionSpec: the closure state of each streaming call
  input,        \* the argument of the function under study
  result        \* its result

\* the variables of one piped transformStream
transcoder ==
  <<handler, tstate, buffer, doneSent, fullText, preambleSent, seqNum, usageData, out, fed>>

\* the variables of the byte-level reassembly
bytes == <<wire, whole, rawLines>>

\* the variables of a function applied on its own
pure == <<input, result>>

\* the variables neither the server nor a piped transformStream touches
extras == <<bytes, sessions, pure>>

vars ==
  <<pc, req, attempt, polls, waitMs, queue, reply, body, nBusy, allBusy, trace,
    transcoder, extras>>

\* the variables of the server and its queue
server == <<pc, req, attempt, polls, waitMs, queue, reply, body, nBusy, allBusy, trace>>

\* ------------------------------------------------------------ HTTP values
Endpoints == {"chat", "responses"}
Prompts == {"p1", "p2"}
\* the prompt texts are told apart in TurnSpec only
PromptsOf(rec) == IF rec THEN Prompts ELSE {"p1"}
NoReq == [endpoint |-> "", stream |-> FALSE, prompt |-> ""]

\* statuses the backend can answer with; 0 stands for a transport failure
SetAnswers == {200, 409, 500, 0}
ProbeAnswers == {200, 409, 500, 0}
StreamAnswers == {200, 204, 409, 500}

\* Response.ok
IsOk(status) == status >= 200 /\ status <= 299

\* a 204 answer has a null body
HasBody(status) == status # 204

MsgSendFailed == "Failed to send message to Rovo Dev after retries"
MsgStillBusy == "Rovo Dev agent remained busy after all retries"
MsgStreamStatus == "Rovo Dev stream_chat returned"
MsgInvalidJson == "Invalid JSON body"

Value(status, type, message, upstream) ==
  [status |-> status, type |-> type, message |-> message, upstream |-> upstream]

NoValue == Value(0, "", "", 0)
\* a body that is no JSON answered like a backend failure
InvalidRequestAsProxyError == Value(502, "proxy_error", MsgInvalidJson, 0)

\* the answer of the catch around req.json()
InvalidRequest == Value(400, "invalid_request_error", MsgInvalidJson, 0)
ProxyError(message, upstream) == Value(502, "proxy_error", message, upstream)
EventStream == Value(200, "event-stream", "", 0)
JsonResult == Value(200, "json", "", 0)
BodyReadError == Value(0, "exception", "body read failed", 0)
ThunkError(t) == Value(0, "exception", "thunk failed", t)
ThunkValue(t) == Value(200, "value", "", t)

Pending == [state |-> "pending", value |-> NoValue]

\* ---------------------------------------------- backend stream values
\* a number field that is not there (typeof is not "number")
Undefined == -1

NoPart == [part_kind |-> "", content |-> ""]
NoDelta ==
  [part_delta_kind |-> "", content_delta |-> "", type |-> "", text |-> "",
   stop_reason |-> ""]

\* a parsed JSON object with none of the fields the proxy reads; a string
\* field that is not there reads as ""
Obj ==
  [json |-> "object", part_kind |-> "", event_kind |-> "", part |-> NoPart,
   delta |-> NoDelta, text_delta |-> "", type |-> "",
   input_tokens |-> Undefined, output_tokens |-> Undefined,
   done |-> FALSE, event |-> ""]

\* JSON.parse("null")
JsonNull == [Obj EXCEPT !.json = "null"]

\* {event_kind:"part_delta", delta:{part_delta_kind:"text", content_delta:t}}
PartDelta(t) ==
  [Obj EXCEPT !.event_kind = "part_delta",
              !.delta = [NoDelta EXCEPT !.part_delta_kind = "text", !.content_delta = t]]

\* {input_tokens:i, output_tokens:o}
Usage(i, o) == [Obj EXCEPT !.input_tokens = i, !.output_tokens = o]

\* one line of the backend's SSE stream, after trim()
Line(kind, data) == [kind |-> kind, data |-> data]

LnBlank == Line("blank", Obj)      \* "" or white space
LnComment == Line("comment", Obj)  \* ": keep-alive"
LnDone == Line("data", [Obj EXCEPT !.json = "[DONE]"])
LnJunk == Line("data", [Obj EXCEPT !.json = "invalid"])  \* data: {"event_ki
LnHel == Line("data", PartDelta("Hel"))
LnLo == Line("data", PartDelta("lo"))
LnUsage == Line("data", Usage(3, 2))
LnOutOnly == Line("data", Usage(Undefined, 5))
LnStop == Line("data", [Obj EXCEPT !.type = "message_stop"])
LnNull == Line("data", JsonNull)
LnNumber == Line("data", [Obj EXCEPT !.json = "number"])  \* data: 5

Lines ==
  {LnBlank, LnComment, LnDone, LnJunk, LnHel, LnLo, LnUsage, LnOutOnly, LnStop, LnNull,
   LnNumber}

\* what the bytes in the buffer can read as once more bytes are appended:
\* white space and a cut-off payload can grow into any line
Grow(b) == IF b \in {LnBlank, LnJunk} THEN Lines ELSE {b}

ZeroUsage == [input_tokens |-> 0, output_tokens |-> 0, total_tokens |-> 0]
NoUsage ==
  [input_tokens |-> Undefined, output_tokens |-> Undefined, total_tokens |-> Undefined]

\* one SSE event passed to controller.enqueue
Event(type, sequence_number, text, usage) ==
  [type |-> type, sequence_number |-> sequence_number, text |-> text, usage |-> usage]

\* {choices:[{delta:{content}, finish_reason:null}]}
ContentChunk(textContent) == Event("content", Undefined, textContent, NoUsage)
\* {choices:[{delta:{}, finish_reason:"stop"}]}
StopChunk == Event("stop", Undefined, "", NoUsage)
\* data: [DONE]
Terminator == Event("[DONE]", Undefined, "", NoUsage)

\* ------------------------------------------------------------ the queue
\* state of the thunk of call c, read off its position
ThunkState(c) ==
  CASE pc[c] \in {"new", "invalid", "queued"} -> "notcalled"
    [] pc[c] = "returned" -> "fulfilled"
    [] pc[c] = "rejected" -> "rejected"
    [] pc[c] = "threw" -> "threw"
    [] OTHER -> "running"

\* fn().then(resolve, reject) left running: the chain does not wait for fn
ThenStateNoWait(fs) ==
  CASE fs \in {"running", "fulfilled", "rejected"} -> "fulfilled"
    [] fs = "threw" -> "rejected"
    [] OTHER -> "pending"

\* requestQueue.then(() => fn().then(resolve, reject)): pending until the
\* thunk's promise settles, fulfilled then (both outcomes are handled), and
\* rejected when fn() itself throws
ThenState(fs) ==
  CASE fs \in {"fulfilled", "rejected"} -> "fulfilled"
    [] fs = "threw" -> "rejected"
    [] OTHER -> "pending"

\* the chain without its .catch
CatchStateMissing(ts) == ts

\* .catch(() => {}): a settled link is always fulfilled
CatchState(ts) == IF ts = "pending" THEN "pending" ELSE "fulfilled"

\* state of requestQueue after the k-th enqueue (k = 0: Promise.resolve())
RECURSIVE LinkState(_)
LinkState(k) ==
  IF k = 0 THEN "fulfilled"
  ELSE LET prev == LinkState(k - 1) IN
       CASE prev = "pending" -> "pending"
         [] prev = "rejected" -> CatchState("rejected")
         [] OTHER -> CatchState(ThenState(ThunkState(queue[k])))

PosOf(c) == CHOOSE k \in 1..Len(queue) : queue[k] = c
Enqueued(c) == \E k \in 1..Len(queue) : queue[k] = c

\* the then-callback of the link of c runs: the previous link is fulfilled
CanStart(c) ==
  /\ Enqueued(c)
  /\ pc[c] = "queued"
  /\ LinkState(PosOf(c) - 1) = "fulfilled"

\* fn().then(resolve): a rejection is never passed on
SettleNoReject(fs, v) ==
  IF fs = "fulfilled" THEN [state |-> "fulfilled", value |-> v] ELSE Pending

\* fn().then(resolve, reject) settling the promise enqueue returned
Settle(fs, v) ==
  CASE fs = "fulfilled" -> [state |-> "fulfilled", value |-> v]
    [] fs = "rejected" -> [state |-> "rejected", value |-> v]
    [] OTHER -> Pending

Init ==
  /\ pc = [c \in Ids |-> "new"]
  /\ req = [c \in Ids |-> NoReq]
  /\ attempt = [c \in Ids |-> 0]
  /\ polls = [c \in Ids |-> 0]
  /\ waitMs = [c \in Ids |-> 0]
  /\ queue = <<>>
  /\ reply = [c \in Ids |-> Pending]
  /\ body = [c \in Ids |-> "none"]
  /\ nBusy = [c \in Ids |-> 0]
  /\ allBusy = [c \in Ids |-> FALSE]
  /\ trace = <<>>
  /\ handler = "none"
  /\ tstate = "idle"
  /\ buffer = LnBlank
  /\ doneSent = FALSE
  /\ fullText = ""
  /\ preambleSent = FALSE
  /\ seqNum = 0
  /\ usageData = ZeroUsage
  /\ out = <<>>
  /\ fed = <<>>
  /\ wire = <<>>
  /\ whole = <<>>
  /\ rawLines = <<>>
  /\ sessions = <<>>
  /\ input = <<>>
  /\ result = ""

\* history of TurnSpec: one entry per backend operation that has returned
Entry(op, text, ms, status, idle) ==
  [op |-> op, text |-> text, ms |-> ms, status |-> status, idle |-> idle]

Log(rec, e) == IF rec THEN Append(trace, e) ELSE trace

\* ------------------------------------------------------- Bun.serve fetch
\* POST /v1/chat/completions or /v1/responses: req.json(), then enqueue
Fetch(c, rec) ==
  /\ UNCHANGED <<transcoder, extras>>
  /\ pc[c] = "new"
  /\ \E ep \in Endpoints, st \in BOOLEAN, p \in PromptsOf(rec), valid \in BOOLEAN :
       IF valid
       THEN /\ req' = [req EXCEPT ![c] = [endpoint |-> ep, stream |-> st, prompt |-> p]]
            /\ queue' = Append(queue, c)
            /\ pc' = [pc EXCEPT ![c] = "queued"]
            /\ UNCHANGED reply
       ELSE /\ pc' = [pc EXCEPT ![c] = "invalid"]
            /\ reply' = [reply EXCEPT ![c] = [state |-> "fulfilled", value |-> InvalidRequest]]
            /\ UNCHANGED <<req, queue>>
  /\ UNCHANGED <<attempt, polls, waitMs, body, nBusy, allBusy, trace>>

\* continue that starts the same attempt again
NextAttemptSame(att) == att

\* attempt++ of the for loop of sendAndStream, reached by continue
NextAttempt(att) == att + 1

\* the top of the loop of sendAndStream skipping the wait when
\* waitForAgentIdle(15_000) has just returned
TopWaitDueUnlessWaited(att, waited) == att > 0 /\ ~waited

\* if (attempt > 0) at the top of the loop of sendAndStream; whether the
\* wait after a failed submission has just returned (waited) is not looked at
TopWaitDue(att, waited) == att > 0

\* the top of the loop in attempt att: up to the next await, which is the
\* first probe of waitForAgentIdle(30_000) or the fetch of setMessage
LoopTop(c, att, waited) ==
  IF TopWaitDue(att, waited)
  THEN /\ waitMs' = [waitMs EXCEPT ![c] = WaitTop]
       /\ pc' = [pc EXCEPT ![c] = "probe"]
  ELSE /\ waitMs' = [waitMs EXCEPT ![c] = 0]
       /\ pc' = [pc EXCEPT ![c] = "set"]

\* the handler is called and runs up to its first await: the fetch of
\* setMessage in attempt 0 of sendAndStream
StartThunk(c, rec) ==
  /\ UNCHANGED <<transcoder, extras>>
  /\ CanStart(c)
  /\ attempt' = [attempt EXCEPT ![c] = 0]
  /\ LoopTop(c, 0, FALSE)
  /\ UNCHANGED <<req, polls, queue, reply, body, nBusy, allBusy, trace>>

\* ------------------------------------------------- the handler's outcome
\* the handler returns value v: its thunk fulfils, its locals are gone
HandlerReturns(c, v) ==
  /\ pc' = [pc EXCEPT ![c] = "returned"]
  /\ reply' = [reply EXCEPT ![c] = Settle("fulfilled", v)]
  /\ req' = [req EXCEPT ![c] = NoReq]
  /\ attempt' = [attempt EXCEPT ![c] = 0]
  /\ nBusy' = [nBusy EXCEPT ![c] = 0]

\* rovoResp.text() rejects outside any try: the handler's promise rejects
HandlerRejects(c, e) ==
  /\ pc' = [pc EXCEPT ![c] = "rejected"]
  /\ reply' = [reply EXCEPT ![c] = Settle("rejected", e)]
  /\ req' = [req EXCEPT ![c] = NoReq]
  /\ attempt' = [attempt EXCEPT ![c] = 0]
  /\ nBusy' = [nBusy EXCEPT ![c] = 0]
  /\ body' = [body EXCEPT ![c] = "failed"]

\* a handler without the try/catch around sendAndStream
HandlerMissesCatch(c, message) ==
  /\ pc' = [pc EXCEPT ![c] = "rejected"]
  /\ reply' = [reply EXCEPT ![c] = Settle("rejected", Value(0, "exception", message, 0))]
  /\ req' = [req EXCEPT ![c] = NoReq]
  /\ attempt' = [attempt EXCEPT ![c] = 0]
  /\ nBusy' = [nBusy EXCEPT ![c] = 0]

\* the catch around sendAndStream in the four handlers
HandlerCatches(c, message) == HandlerReturns(c, ProxyError(message, 0))

\* ------------------------------------------------------- waitForAgentIdle
\* the loop condition Date.now() - start < maxWaitMs after k sleeps of
\* interval ms each; at most MaxPolls probes of one wait are followed here
TimeMayBeLeft(k, maxWaitMs) == k * interval < maxWaitMs /\ k < MaxPolls

\* waitForAgentIdle returns to sendAndStream, which goes on to the next
\* setMessage (wait at the loop top) or to the next attempt (wait after a
\* failed submission, followed by the wait at the loop top)
WaitReturns(c, rec, idle) ==
  /\ trace' = Log(rec, Entry("wait", "", waitMs[c], 0, idle))
  /\ polls' = [polls EXCEPT ![c] = 0]
  /\ IF waitMs[c] = WaitSubmit
     THEN /\ attempt' = [attempt EXCEPT ![c] = NextAttempt(@)]
          /\ LoopTop(c, NextAttempt(attempt[c]), TRUE)
     ELSE /\ waitMs' = [waitMs EXCEPT ![c] = 0]
          /\ pc' = [pc EXCEPT ![c] = "set"]
          /\ UNCHANGED attempt

\* an error of the probe's fetch, as e.message
MsgFetchFailed == "fetch failed"

\* the probe's fetch outside any try: a transport failure leaves
\* waitForAgentIdle as an exception
ProbeVerdictThrows(a) ==
  IF IsOk(a) THEN "idle" ELSE IF a = 0 THEN "raise" ELSE "again"

\* one round of the loop of waitForAgentIdle: return when resp.ok; any other
\* status, and any error of the fetch (caught by the empty catch), goes on
\* to the sleep
ProbeVerdict(a) == IF IsOk(a) THEN "idle" ELSE "again"

\* POST /v3/sessions/create answers (0: the fetch throws or times out). An
\* error leaving waitForAgentIdle would leave sendAndStream as well and end
\* in the handler's catch
ProbeReturns(c, rec) ==
  /\ UNCHANGED <<transcoder, extras>>
  /\ pc[c] = "probe"
  /\ \E a \in ProbeAnswers :
       CASE ProbeVerdict(a) = "idle" ->
              /\ WaitReturns(c, rec, TRUE)
              /\ UNCHANGED <<req, reply, nBusy>>
         [] ProbeVerdict(a) = "again" ->
              /\ pc' = [pc EXCEPT ![c] = "sleep"]
              /\ UNCHANGED <<req, attempt, polls, waitMs, reply, nBusy, trace>>
         [] OTHER ->
              /\ HandlerCatches(c, MsgFetchFailed)
              /\ UNCHANGED <<polls, waitMs, trace>>
  /\ UNCHANGED <<queue, body, allBusy>>

\* the sleep of one interval ends and the loop condition is evaluated
SleepDone(c, rec) ==
  /\ UNCHANGED <<transcoder, extras>>
  /\ pc[c] = "sleep"
  /\ \E timeLeft \in BOOLEAN :
       /\ timeLeft => TimeMayBeLeft(polls[c] + 1, waitMs[c])
       /\ IF timeLeft
          THEN /\ pc' = [pc EXCEPT ![c] = "probe"]
               /\ polls' = [polls EXCEPT ![c] = @ + 1]
               /\ UNCHANGED <<attempt, waitMs, trace>>
          ELSE WaitReturns(c, rec, FALSE)
  /\ UNCHANGED <<req, queue, reply, body, nBusy, allBusy>>

\* ---------------------------------------------------------- sendAndStream
\* the text posted as message by a retry that lost the prompt
SubmittedTextLost(c) == IF attempt[c] > 0 THEN "" ELSE req[c].prompt

\* setMessage(prompt): the message posted by every attempt
SubmittedText(c) == req[c].prompt

\* a failed submission retried on the last attempt as well
SubmitVerdictOffByOne(a, att) ==
  IF IsOk(a) THEN "accepted"
  ELSE IF att < maxRetries THEN "retry" ELSE "fail"

\* a submission retried only when the backend answered busy
SubmitVerdictBusyOnly(a, att) ==
  IF IsOk(a) THEN "accepted"
  ELSE IF a = 409 /\ att < maxRetries - 1 THEN "retry" ELSE "fail"

\* what sendAndStream does with the answer a to setMessage in attempt att:
\* msgOk is resp.ok (false when the fetch throws); a failure is retried
\* unless the attempt is the last one
SubmitVerdict(a, att) ==
  IF IsOk(a) THEN "accepted"
  ELSE IF att < maxRetries - 1 THEN "retry" ELSE "fail"

\* POST /v3/set_chat_message answers (0: the fetch throws)
SetMessageReturns(c, rec) ==
  /\ UNCHANGED <<transcoder, extras>>
  /\ pc[c] = "set"
  /\ \E a \in SetAnswers :
       /\ trace' = Log(rec, Entry("set", SubmittedText(c), 0, a, FALSE))
       /\ CASE SubmitVerdict(a, attempt[c]) = "accepted" ->
              /\ pc' = [pc EXCEPT ![c] = "stream"]
              /\ UNCHANGED <<req, attempt, waitMs, reply, nBusy>>
            [] SubmitVerdict(a, attempt[c]) = "retry" ->
              /\ pc' = [pc EXCEPT ![c] = "probe"]
              /\ waitMs' = [waitMs EXCEPT ![c] = WaitSubmit]
              /\ UNCHANGED <<req, attempt, reply, nBusy>>
            [] OTHER ->
              /\ HandlerCatches(c, MsgSendFailed)
              /\ UNCHANGED waitMs
  /\ UNCHANGED <<polls, queue, body, allBusy>>

\* a loop that runs one attempt more than its budget
LoopGoesOnOneMore(att) == att <= maxRetries

\* attempt < maxRetries: the condition of the for loop of sendAndStream,
\* evaluated after attempt++
LoopGoesOn(att) == att < maxRetries

\* a busy answer of stream_chat handled like any other failure
IsBusyNever(a) == FALSE

\* every failure of stream_chat taken for busy
IsBusyAnyFailure(a) == ~IsOk(a)

\* resp.status === 409
IsBusy(a) == a = 409

\* GET /v3/stream_chat answers
StreamReturns(c, rec) ==
  /\ UNCHANGED <<transcoder, extras>>
  /\ pc[c] = "stream"
  /\ \E a \in StreamAnswers :
       /\ trace' = Log(rec, Entry("stream", "", 0, a, FALSE))
       /\ IF IsOk(a)
          THEN /\ UNCHANGED <<waitMs, allBusy>>
               /\ IF req[c].stream
                  THEN IF HasBody(a)
                       THEN /\ HandlerReturns(c, EventStream)
                            /\ body' = [body EXCEPT ![c] = "open"]
                       ELSE /\ HandlerReturns(c, ProxyError(MsgStreamStatus, a))
                            /\ UNCHANGED body
                  ELSE /\ pc' = [pc EXCEPT ![c] = "text"]
                       /\ body' = [body EXCEPT ![c] = "open"]
                       /\ UNCHANGED <<req, attempt, reply, nBusy>>
          ELSE IF IsBusy(a)
          THEN /\ UNCHANGED body
               /\ IF LoopGoesOn(NextAttempt(attempt[c]))
                  THEN /\ attempt' = [attempt EXCEPT ![c] = NextAttempt(@)]
                       /\ nBusy' = [nBusy EXCEPT ![c] = @ + 1]
                       /\ LoopTop(c, NextAttempt(attempt[c]), FALSE)
                       /\ UNCHANGED <<req, reply, allBusy>>
                  ELSE /\ HandlerCatches(c, MsgStillBusy)
                       /\ allBusy' = [allBusy EXCEPT ![c] = (nBusy[c] + 1 = maxRetries)]
                       /\ UNCHANGED waitMs
          ELSE /\ HandlerReturns(c, ProxyError(MsgStreamStatus, a))
               /\ UNCHANGED <<waitMs, body, allBusy>>
  /\ UNCHANGED <<polls, queue>>

\* non-streaming handlers: await rovoResp.text() reads the backend stream to
\* its end, or fails with the connection
TextReturns(c, rec) ==
  /\ UNCHANGED <<transcoder, extras>>
  /\ pc[c] = "text"
  /\ \E ok \in BOOLEAN :
       IF ok
       THEN /\ HandlerReturns(c, JsonResult)
            /\ body' = [body EXCEPT ![c] = "ended"]
       ELSE HandlerRejects(c, BodyReadError)
  /\ UNCHANGED <<polls, waitMs, queue, allBusy, trace>>

\* streaming handlers: the piped backend stream reaches its end (flush)
StreamEnds(c, rec) ==
  /\ UNCHANGED <<transcoder, extras>>
  /\ pc[c] = "returned"
  /\ body[c] = "open"
  /\ body' = [body EXCEPT ![c] = "ended"]
  /\ UNCHANGED <<pc, req, attempt, polls, waitMs, queue, reply, nBusy, allBusy, trace>>

CallStep(c, rec) ==
  \/ Fetch(c, rec)
  \/ StartThunk(c, rec)
  \/ SetMessageReturns(c, rec)
  \/ ProbeReturns(c, rec)
  \/ SleepDone(c, rec)
  \/ StreamReturns(c, rec)
  \/ TextReturns(c, rec)
  \/ StreamEnds(c, rec)

Next == \E c \in Calls : CallStep(c, FALSE)
Spec == Init /\ [][Next]_vars

TurnNext == CallStep(1, TRUE)
TurnSpec == Init /\ [][TurnNext]_vars

\* one turn whose awaited operations all return: every fetch settles (the
\* probe's by its 5 s abort signal at the latest) and every sleep ends
LiveNext == CallStep(1, FALSE)
LiveSpec ==
  /\ Init
  /\ [][LiveNext]_vars
  /\ WF_vars(SetMessageReturns(1, FALSE))
  /\ WF_vars(ProbeReturns(1, FALSE))
  /\ WF_vars(SleepDone(1, FALSE))
  /\ WF_vars(StreamReturns(1, FALSE))

\* ------------------------------------------------- enqueue on its own
QEnqueue(t) ==
  /\ UNCHANGED <<transcoder, extras>>
  /\ pc[t] = "new"
  /\ queue' = Append(queue, t)
  /\ pc' = [pc EXCEPT ![t] = "queued"]
  /\ UNCHANGED <<req, attempt, polls, waitMs, reply, body, nBusy, allBusy, trace>>

\* the then-callback calls fn(): it returns a promise or throws
QStart(t) ==
  /\ UNCHANGED <<transcoder, extras>>
  /\ CanStart(t)
  /\ \E throws \in BOOLEAN :
       pc' = [pc EXCEPT ![t] = IF throws THEN "threw" ELSE "running"]
  /\ UNCHANGED <<req, attempt, polls, waitMs, queue, reply, body, nBusy, allBusy, trace>>

\* the promise fn() returned settles
QSettle(t) ==
  /\ UNCHANGED <<transcoder, extras>>
  /\ pc[t] = "running"
  /\ \E ok \in BOOLEAN :
       IF ok
       THEN /\ pc' = [pc EXCEPT ![t] = "returned"]
            /\ reply' = [reply EXCEPT ![t] = Settle("fulfilled", ThunkValue(t))]
       ELSE /\ pc' = [pc EXCEPT ![t] = "rejected"]
            /\ reply' = [reply EXCEPT ![t] = Settle("rejected", ThunkError(t))]
  /\ UNCHANGED <<req, attempt, polls, waitMs, queue, body, nBusy, allBusy, trace>>

QNext == \E t \in Thunks : QEnqueue(t) \/ QStart(t) \/ QSettle(t)
QSpec == Init /\ [][QNext]_vars

\* the queue with every callback run and every thunk's promise settling
QLiveSpec ==
  /\ Init
  /\ [][QNext]_vars
  /\ \A t \in Thunks : WF_vars(QStart(t)) /\ WF_vars(QSettle(t))

\* ------------------------------------------------ the event classifier
\* the echo test made after the other rules: an echo that carries text
\* fields is not suppressed
IsEchoCheckedLast(data) ==
  /\ data.part_kind = "user-prompt"
  /\ ~(data.event_kind = "part_start" /\ data.part.part_kind = "text")
  /\ ~(data.event_kind = "part_delta" /\ data.delta.part_delta_kind = "text")
  /\ data.text_delta = ""
  /\ data.delta.text = ""

\* if (data.part_kind === "user-prompt") return null: the first rule
IsEcho(data) == data.part_kind = "user-prompt"

\* extractText; null and "" are both read as "", the caller tests truthiness
extractText(data) ==
  IF data.json # "object" THEN ""
  ELSE IF IsEcho(data) THEN ""
  ELSE IF data.event_kind = "part_start" /\ data.part.part_kind = "text"
    THEN data.part.content
  ELSE IF data.event_kind = "part_delta" /\ data.delta.part_delta_kind = "text"
    THEN data.delta.content_delta
  ELSE IF data.text_delta # "" THEN data.text_delta
  ELSE data.delta.text

\* typeof x === "number"
IsNumber(x) == x # Undefined

\* x || 0 for a number field
OrZero(x) == IF IsNumber(x) THEN x ELSE 0

isStreamEnd(data) ==
  /\ data.json = "object"
  /\ \/ IsNumber(data.input_tokens) \/ IsNumber(data.output_tokens)
     \/ data.type = "message_stop"
     \/ data.type = "message_delta" /\ data.delta.stop_reason # ""
     \/ data.done
     \/ data.type \in {"end", "stop"}
     \/ data.event \in {"done", "end"}

\* !trimmed || trimmed.startsWith(":") || !trimmed.startsWith("data: ")
Skipped(line) == line.kind # "data"

\* jsonStr === "[DONE]"
IsDoneLiteral(line) == line.data.json = "[DONE]"

\* JSON.parse(jsonStr) does not throw
Parses(line) == line.data.json \notin {"invalid", "[DONE]"}

\* ------------------------------------------------------- processSSELines
\* processSSELines starting every call with sentDone = false
InitialSentDoneFresh(alreadyDone) == FALSE

\* let sentDone = alreadyDone
InitialSentDone(alreadyDone) == alreadyDone

\* content chunks held back once the terminator is out
ChunkDueUntilDone(textContent, sentDone) == textContent # "" /\ ~sentDone

\* if (textContent): the content chunk is emitted whatever sentDone is
ChunkDue(textContent, sentDone) == textContent # ""

\* a payload that does not parse taken for the end of the turn
ParseErrorEndsTurn(st) ==
  [out |-> st.out \o <<StopChunk, Terminator>>, sentDone |-> TRUE]

\* catch { continue }
ParseErrorSkipped(st) == st

\* the body of the for loop, on st = [out, sentDone]
ProcessLine(st, line) ==
  IF Skipped(line) THEN st
  ELSE IF IsDoneLiteral(line)
    THEN IF ~st.sentDone
         THEN [out |-> Append(st.out, Terminator), sentDone |-> TRUE]
         ELSE st
  ELSE IF ~Parses(line) THEN ParseErrorSkipped(st)
  ELSE LET textContent == extractText(line.data)
           emitted == IF ChunkDue(textContent, st.sentDone)
                      THEN Append(st.out, ContentChunk(textContent))
                      ELSE st.out
       IN IF ~st.sentDone /\ isStreamEnd(line.data)
          THEN [out |-> emitted \o <<StopChunk, Terminator>>, sentDone |-> TRUE]
          ELSE [out |-> emitted, sentDone |-> st.sentDone]

RECURSIVE ProcessLines(_, _)
ProcessLines(st, lines) ==
  IF lines = <<>> THEN st
  ELSE ProcessLines(ProcessLine(st, Head(lines)), Tail(lines))

processSSELines(lines, emittedSoFar, alreadyDone) ==
  ProcessLines([out |-> emittedSoFar, sentDone |-> InitialSentDone(alreadyDone)], lines)

\* a flush without the safety net
SafetyNetMissing(done) == FALSE

\* if (!doneSent) in flush of handleStreamingCompletion
SafetyNetDue(done) == ~done

\* ---------------------------------- handleStreamingResponsesViaCompletions
\* the closure state of the handler, as one record
Closure ==
  [out |-> out, fullText |-> fullText, preambleSent |-> preambleSent,
   seqNum |-> seqNum, usageData |-> usageData, threw |-> FALSE]

\* ++seqNum
SequenceNumberPre(n) == n + 1

\* seqNum++: the value the event carries
SequenceNumber(n) == n

emit(st, eventType, text, usage) ==
  [st EXCEPT !.out = Append(@, Event(eventType, SequenceNumber(st.seqNum), text, usage)),
             !.seqNum = @ + 1]

\* a preamble sent with every text fragment
PreambleDueEveryTime(sent) == TRUE

\* if (preambleSent) return
PreambleDue(sent) == ~sent

sendPreamble(st) ==
  IF ~PreambleDue(st.preambleSent) THEN st
  ELSE LET s0 == [st EXCEPT !.preambleSent = TRUE]
           s1 == emit(s0, "response.created", "", NoUsage)
           s2 == emit(s1, "response.in_progress", "", NoUsage)
           s3 == emit(s2, "response.output_item.added", "", NoUsage)
       IN emit(s3, "response.content_part.added", "", NoUsage)

\* fullText = text
AccumulateLast(full, text) == text

\* fullText += text
Accumulate(full, text) == full \o text

\* if (text) { sendPreamble; fullText += text; emit delta }
TextStep(st, data) ==
  LET text == extractText(data) IN
  IF text = "" THEN st
  ELSE LET s1 == sendPreamble(st)
           s2 == [s1 EXCEPT !.fullText = Accumulate(@, text)]
       IN emit(s2, "response.output_text.delta", text, NoUsage)

\* if (typeof data.input_tokens === "number") usageData = ...
UsageStep(st, data) ==
  IF IsNumber(data.input_tokens)
  THEN [st EXCEPT !.usageData =
          [input_tokens |-> OrZero(data.input_tokens),
           output_tokens |-> OrZero(data.output_tokens),
           total_tokens |-> OrZero(data.input_tokens) + OrZero(data.output_tokens)]]
  ELSE st

\* the upstream sentinel taken for the end of the response
AtSentinelCloses(st) ==
  IF st.preambleSent
  THEN LET s1 == emit(st, "response.output_text.done", st.fullText, NoUsage)
           s2 == emit(s1, "response.content_part.done", st.fullText, NoUsage)
           s3 == emit(s2, "response.output_item.done", st.fullText, NoUsage)
       IN emit(s3, "response.completed", st.fullText, st.usageData)
  ELSE st

\* if (jsonStr === "[DONE]") continue
AtSentinel(st) == st

\* the body of the for loop of transform; data.input_tokens of null throws
\* a TypeError, which ends the loop and errors the stream
TransformLine(st, line) ==
  IF st.threw \/ Skipped(line) THEN st
  ELSE IF IsDoneLiteral(line) THEN AtSentinel(st)
  ELSE IF ~Parses(line) THEN st
  ELSE IF line.data.json = "null" THEN [st EXCEPT !.threw = TRUE]
  ELSE TextStep(UsageStep(st, line.data), line.data)

RECURSIVE TransformLines(_, _)
TransformLines(st, lines) ==
  IF lines = <<>> THEN st
  ELSE TransformLines(TransformLine(st, Head(lines)), Tail(lines))

\* flush, draining the buffer: text only, inside try/catch
DrainLine(st, line) ==
  IF Skipped(line) \/ IsDoneLiteral(line) \/ ~Parses(line) THEN st
  ELSE TextStep(st, line.data)

\* closing events sent by every flush
ClosingDueAlways(sent) == TRUE

\* if (preambleSent) in flush
ClosingDue(sent) == sent

\* the closing events of flush
Closing(st) ==
  IF ~ClosingDue(st.preambleSent) THEN st
  ELSE LET s1 == emit(st, "response.output_text.done", st.fullText, NoUsage)
           s2 == emit(s1, "response.content_part.done", st.fullText, NoUsage)
           s3 == emit(s2, "response.output_item.done", st.fullText, NoUsage)
       IN emit(s3, "response.completed", st.fullText, st.usageData)

\* ------------------------------------------------- the piped transformStream
Handlers == {"chat", "responses"}

\* rovoResp.body.pipeThrough(transformStream) in streaming handler h
Pipe(h) ==
  /\ tstate = "idle"
  /\ handler' = h
  /\ tstate' = "open"
  /\ UNCHANGED <<buffer, doneSent, fullText, preambleSent, seqNum, usageData, out, fed>>
  /\ UNCHANGED <<server, extras>>

\* how many more lines the model follows
Room == MaxLines - Len(fed)

\* transform(chunk) for a chunk with no newline: it is added to the buffer
\* and parts is empty
TransformPart ==
  /\ tstate = "open"
  /\ Room > 0
  /\ \E grown \in Grow(buffer) : buffer' = grown
  /\ UNCHANGED <<handler, tstate, doneSent, fullText, preambleSent, seqNum, usageData, out, fed>>
  /\ UNCHANGED <<server, extras>>

\* transform(chunk) for a chunk with n newlines: it ends the line in the
\* buffer, brings n - 1 further whole lines and leaves the beginning of a
\* next line in the buffer
Transform ==
  /\ tstate = "open"
  /\ \E n \in 1..(IF Room < MaxChunkLines THEN Room ELSE MaxChunkLines) :
     \E first \in Grow(buffer), more \in [1..(n - 1) -> Lines],
        last \in (IF n < Room THEN Lines ELSE {LnBlank}) :
       LET parts == <<first>> \o more IN
          /\ fed' = fed \o parts
          /\ buffer' = last
          /\ IF handler = "chat"
             THEN LET r == processSSELines(parts, out, doneSent) IN
                  /\ out' = r.out
                  /\ doneSent' = r.sentDone
                  /\ tstate' = tstate
                  /\ UNCHANGED <<fullText, preambleSent, seqNum, usageData>>
             ELSE LET r == TransformLines(Closure, parts) IN
                  /\ out' = r.out
                  /\ fullText' = r.fullText
                  /\ preambleSent' = r.preambleSent
                  /\ seqNum' = r.seqNum
                  /\ usageData' = r.usageData
                  /\ tstate' = IF r.threw THEN "errored" ELSE tstate
                  /\ UNCHANGED doneSent
  /\ UNCHANGED handler
  /\ UNCHANGED <<server, extras>>

\* flush(controller): the backend stream has ended
Flush ==
  /\ tstate = "open"
  /\ tstate' = "closed"
  /\ fed' = IF buffer # LnBlank THEN Append(fed, buffer) ELSE fed
  /\ IF handler = "chat"
     THEN LET r == IF buffer # LnBlank
                   THEN processSSELines(<<buffer>>, out, doneSent)
                   ELSE [out |-> out, sentDone |-> doneSent]
          IN /\ out' = IF SafetyNetDue(r.sentDone)
                       THEN r.out \o <<StopChunk, Terminator>>
                       ELSE r.out
             /\ doneSent' = r.sentDone
             /\ UNCHANGED <<fullText, preambleSent, seqNum, usageData>>
     ELSE LET d == IF buffer # LnBlank THEN DrainLine(Closure, buffer) ELSE Closure
              r == Closing(d)
          IN /\ out' = r.out
             /\ fullText' = r.fullText
             /\ preambleSent' = r.preambleSent
             /\ seqNum' = r.seqNum
             /\ UNCHANGED <<doneSent, usageData>>
  /\ UNCHANGED <<handler, buffer>>
  /\ UNCHANGED <<server, extras>>

\* the backend connection fails while the stream is open: the piped stream
\* errors and flush is never called
Abort ==
  /\ tstate = "open"
  /\ tstate' = "errored"
  /\ UNCHANGED <<handler, buffer, doneSent, fullText, preambleSent, seqNum, usageData, out, fed>>
  /\ UNCHANGED <<server, extras>>

StreamNext ==
  (\E h \in Handlers : Pipe(h)) \/ TransformPart \/ Transform \/ Flush \/ Abort
StreamSpec == Init /\ [][StreamNext]_vars

\* ----------------------------------------- one body, translated in one go
FreshClosure ==
  [out |-> <<>>, fullText |-> "", preambleSent |-> FALSE, seqNum |-> 0,
   usageData |-> ZeroUsage, threw |-> FALSE]

\* what streaming handler h sends, and how its stream ends, when the lines
\* arrive in one chunk, each ended by a newline, followed by the text last
\* without a newline
OneShot(h, lines, last) ==
  IF h = "chat"
  THEN LET r1 == processSSELines(lines, <<>>, FALSE)
           r2 == IF last # LnBlank
                 THEN processSSELines(<<last>>, r1.out, r1.sentDone)
                 ELSE r1
       IN [tstate |-> "closed",
           out |-> IF SafetyNetDue(r2.sentDone)
                   THEN r2.out \o <<StopChunk, Terminator>>
                   ELSE r2.out]
  ELSE LET t == TransformLines(FreshClosure, lines)
           d == IF last # LnBlank THEN DrainLine(t, last) ELSE t
       IN IF t.threw
          THEN [tstate |-> "errored", out |-> t.out]
          ELSE [tstate |-> "closed", out |-> Closing(d).out]

\* ------------------------------------------------ the body, byte by byte
\* the body arrives as pieces of text; a chunk boundary can fall between any
\* two pieces: inside a line, before a newline and after it
Newline == "\n"
DataPrefix == "data: "

\* the payload of a data line, as the backend writes it
Payload(line) ==
  CASE line = LnDone -> "[DONE]"
    [] line = LnNull -> "null"
    [] line = LnUsage -> "{\"input_tokens\":3,\"output_tokens\":2}"
    [] line = LnHel ->
         "{\"event_kind\":\"part_delta\",\"delta\":{\"part_delta_kind\":\"text\",\"content_delta\":\"Hel\"}}"
    [] OTHER -> ""

\* the lines a body is made of
BodyLines == {LnBlank, LnDone, LnNull, LnUsage, LnHel}

\* the pieces of one line
Pieces(line) == IF line = LnBlank THEN <<>> ELSE <<DataPrefix, Payload(line)>>

RECURSIVE Encode(_)
Encode(lines) ==
  IF lines = <<>> THEN <<>>
  ELSE Pieces(Head(lines)) \o <<Newline>> \o Encode(Tail(lines))

\* the bodies: up to MaxBodyLines lines, the last one with or without its
\* newline
Bodies ==
  LET ended == UNION {{Encode(ls) : ls \in [1..k -> BodyLines]} : k \in 0..MaxBodyLines}
  IN ended \cup {SubSeq(b, 1, Len(b) - 1) : b \in ended \ {<<>>}}

\* trim() and the tests of the line loop on the text of one line
Decode(text) ==
  IF text = "" THEN LnBlank
  ELSE IF \E l \in BodyLines \ {LnBlank} : text = DataPrefix \o Payload(l)
    THEN CHOOSE l \in BodyLines \ {LnBlank} : text = DataPrefix \o Payload(l)
  ELSE IF Len(text) >= Len(DataPrefix) /\ SubSeq(text, 1, Len(DataPrefix)) = DataPrefix
    THEN LnJunk
  ELSE Line("field", Obj)

DecodeAll(texts) == [i \in 1..Len(texts) |-> Decode(texts[i])]

\* (buffer + chunk).split("\n"): the complete lines and the last part
RECURSIVE SplitLines(_, _)
SplitLines(text, chunk) ==
  IF chunk = <<>> THEN [parts |-> <<>>, last |-> text]
  ELSE IF Head(chunk) = Newline
    THEN LET r == SplitLines("", Tail(chunk))
         IN [parts |-> <<text>> \o r.parts, last |-> r.last]
  ELSE SplitLines(text \o Head(chunk), Tail(chunk))

\* a buffer emptied by every transform
RemainderDropped(last) == ""

\* buffer = parts.pop() || ""
Remainder(last) == last

\* the body of a streaming call starts to arrive
ChunkInit ==
  /\ pc = [c \in Ids |-> "new"]
  /\ req = [c \in Ids |-> NoReq]
  /\ attempt = [c \in Ids |-> 0]
  /\ polls = [c \in Ids |-> 0]
  /\ waitMs = [c \in Ids |-> 0]
  /\ queue = <<>>
  /\ reply = [c \in Ids |-> Pending]
  /\ body = [c \in Ids |-> "none"]
  /\ nBusy = [c \in Ids |-> 0]
  /\ allBusy = [c \in Ids |-> FALSE]
  /\ trace = <<>>
  /\ handler \in Handlers
  /\ tstate = "open"
  /\ buffer = ""
  /\ doneSent = FALSE
  /\ fullText = ""
  /\ preambleSent = FALSE
  /\ seqNum = 0
  /\ usageData = ZeroUsage
  /\ out = <<>>
  /\ fed = <<>>
  /\ whole \in Bodies
  /\ wire = whole
  /\ rawLines = <<>>
  /\ sessions = <<>>
  /\ input = <<>>
  /\ result = ""

\* transform(chunk), the chunk being the next n pieces of the body
Deliver ==
  /\ tstate = "open"
  /\ \E n \in 1..Len(wire) :
       LET s == SplitLines(buffer, SubSeq(wire, 1, n))
           parts == DecodeAll(s.parts)
       IN /\ wire' = SubSeq(wire, n + 1, Len(wire))
          /\ buffer' = Remainder(s.last)
          /\ rawLines' = rawLines \o s.parts
          /\ fed' = fed \o parts
          /\ IF handler = "chat"
             THEN LET r == processSSELines(parts, out, doneSent) IN
                  /\ out' = r.out
                  /\ doneSent' = r.sentDone
                  /\ tstate' = tstate
                  /\ UNCHANGED <<fullText, preambleSent, seqNum, usageData>>
             ELSE LET r == TransformLines(Closure, parts) IN
                  /\ out' = r.out
                  /\ fullText' = r.fullText
                  /\ preambleSent' = r.preambleSent
                  /\ seqNum' = r.seqNum
                  /\ usageData' = r.usageData
                  /\ tstate' = IF r.threw THEN "errored" ELSE tstate
                  /\ UNCHANGED doneSent
  /\ UNCHANGED <<handler, whole>>
  /\ UNCHANGED <<server, sessions, pure>>

\* flush(controller), the body having arrived to its end
End ==
  /\ tstate = "open"
  /\ wire = <<>>
  /\ tstate' = "closed"
  /\ LET last == Decode(buffer) IN
     /\ fed' = IF last # LnBlank THEN Append(fed, last) ELSE fed
     /\ IF handler = "chat"
        THEN LET r == IF last # LnBlank
                      THEN processSSELines(<<last>>, out, doneSent)
                      ELSE [out |-> out, sentDone |-> doneSent]
             IN /\ out' = IF SafetyNetDue(r.sentDone)
                          THEN r.out \o <<StopChunk, Terminator>>
                          ELSE r.out
                /\ doneSent' = r.sentDone
                /\ UNCHANGED <<fullText, preambleSent, seqNum, usageData>>
        ELSE LET d == IF last # LnBlank THEN DrainLine(Closure, last) ELSE Closure
                 r == Closing(d)
             IN /\ out' = r.out
                /\ fullText' = r.fullText
                /\ preambleSent' = r.preambleSent
                /\ seqNum' = r.seqNum
                /\ UNCHANGED <<doneSent, usageData>>
  /\ UNCHANGED <<handler, buffer, bytes>>
  /\ UNCHANGED <<server, sessions, pure>>

ChunkNext == Deliver \/ End
ChunkSpec == ChunkInit /\ [][ChunkNext]_vars

\* ------------------------------------------------ non-streaming handlers
\* the body of the loop over fullText.split("\n") in
\* handleNonStreamingCompletion and handleNonStreamingResponsesViaCompletions
AggregateLine(content, line) ==
  IF Skipped(line) \/ IsDoneLiteral(line) \/ ~Parses(line) THEN content
  ELSE content \o extractText(line.data)

\* the content of the one message a non-streaming handler returns
RECURSIVE Aggregate(_)
Aggregate(lines) ==
  IF lines = <<>> THEN ""
  ELSE AggregateLine(Aggregate(SubSeq(lines, 1, Len(lines) - 1)), lines[Len(lines)])

\* ------------------------------------ two calls streaming at the same time
\* the two streaming calls whose transform steps interleave
TwoCalls == {1, 2}

\* how many lines the model follows in each of them
MaxSessionLines == 2

\* the lines their backend streams are made of
SessionLines == {LnHel, LnUsage, LnDone}

\* what the handler would get from generateId / Math.random, Date.now and
\* body.model at one moment
Starts ==
  { [id |-> "rovodev-1", item |-> "item_rovodev-1", now |-> 1700000000,
     model |-> "rovodev-auto"],
    [id |-> "rovodev-2", item |-> "item_rovodev-2", now |-> 1700000001,
     model |-> "rovodev-gpt-5"] }

\* a call whose handler has not started
IdleSession ==
  [handler |-> "none", tstate |-> "idle", id |-> "", item |-> "", created |-> 0,
   model |-> "", doneSent |-> FALSE, fullText |-> "", preambleSent |-> FALSE,
   seqNum |-> 0, usageData |-> ZeroUsage, out |-> <<>>, fed |-> <<>>]

\* identifiers made again for every chunk
IdentifiersFresh(sess, fresh) ==
  [id |-> fresh.id, item |-> fresh.item, created |-> fresh.now, model |-> sess.model]

\* chatId, timestamp, model / respId, itemId, model: constants of the
\* handler call, closed over by transform and flush
Identifiers(sess, fresh) ==
  [id |-> sess.id, item |-> sess.item, created |-> sess.created, model |-> sess.model]

\* the identifiers an event is written with. The terminator has none; a chat
\* chunk has id, created and model; buildResp puts the response id and the
\* model in response.created, response.in_progress and response.completed
\* (its created_at is read from the clock at every call and not followed); the
\* other events name the item
Stamp(h, ids, ev) ==
  IF ev = Terminator
  THEN [ev |-> ev, id |-> "", item |-> "", created |-> Undefined, model |-> ""]
  ELSE IF h = "chat"
  THEN [ev |-> ev, id |-> ids.id, item |-> "", created |-> ids.created,
        model |-> ids.model]
  ELSE [ev |-> ev,
        id |-> IF ev.type \in {"response.created", "response.in_progress",
                               "response.completed"} THEN ids.id ELSE "",
        item |-> IF ev.type \in {"response.created", "response.in_progress"}
                 THEN "" ELSE ids.item,
        created |-> Undefined,
        model |-> IF ev.type \in {"response.created", "response.in_progress",
                                  "response.completed"} THEN ids.model ELSE ""]

\* the events of a call, without their identifiers
Unstamped(sent) == [i \in 1..Len(sent) |-> sent[i].ev]

\* the events sent so far, followed by the new ones of events
StampNew(sess, fresh, events) ==
  sess.out \o
    [i \in 1..(Len(events) - Len(sess.out)) |->
       Stamp(sess.handler, Identifiers(sess, fresh), events[Len(sess.out) + i])]

\* the closure state of a streaming responses call
ClosureOf(sess) ==
  [out |-> Unstamped(sess.out), fullText |-> sess.fullText,
   preambleSent |-> sess.preambleSent, seqNum |-> sess.seqNum,
   usageData |-> sess.usageData, threw |-> FALSE]

\* seqNum declared at module level: one counter for all calls
StoreShared(ss, s, r) ==
  [t \in DOMAIN ss |-> IF t = s THEN r ELSE [ss[t] EXCEPT !.seqNum = r.seqNum]]

\* buffer, doneSent, fullText, preambleSent, seqNum, usageData are declared
\* inside the handler: a step writes the state of its own call only
Store(ss, s, r) == [ss EXCEPT ![s] = r]

\* transform(chunk) of one call, the chunk being one line
SessionStep(sess, fresh, line) ==
  IF sess.handler = "chat"
  THEN LET r == processSSELines(<<line>>, Unstamped(sess.out), sess.doneSent) IN
       [sess EXCEPT !.out = StampNew(sess, fresh, r.out),
                    !.doneSent = r.sentDone,
                    !.fed = Append(@, line)]
  ELSE LET r == TransformLines(ClosureOf(sess), <<line>>) IN
       [sess EXCEPT !.out = StampNew(sess, fresh, r.out),
                    !.fullText = r.fullText,
                    !.preambleSent = r.preambleSent,
                    !.seqNum = r.seqNum,
                    !.usageData = r.usageData,
                    !.tstate = IF r.threw THEN "errored" ELSE @,
                    !.fed = Append(@, line)]

\* flush(controller) of one call, the buffer being empty
SessionEnd(sess, fresh) ==
  IF sess.handler = "chat"
  THEN [sess EXCEPT !.out = StampNew(sess, fresh,
                               IF SafetyNetDue(sess.doneSent)
                               THEN Unstamped(sess.out) \o <<StopChunk, Terminator>>
                               ELSE Unstamped(sess.out)),
                    !.tstate = "closed"]
  ELSE LET r == Closing(ClosureOf(sess)) IN
       [sess EXCEPT !.out = StampNew(sess, fresh, r.out),
                    !.seqNum = r.seqNum,
                    !.tstate = "closed"]

SessionInit ==
  /\ pc = [c \in Ids |-> "new"]
  /\ req = [c \in Ids |-> NoReq]
  /\ attempt = [c \in Ids |-> 0]
  /\ polls = [c \in Ids |-> 0]
  /\ waitMs = [c \in Ids |-> 0]
  /\ queue = <<>>
  /\ reply = [c \in Ids |-> Pending]
  /\ body = [c \in Ids |-> "none"]
  /\ nBusy = [c \in Ids |-> 0]
  /\ allBusy = [c \in Ids |-> FALSE]
  /\ trace = <<>>
  /\ handler = "none"
  /\ tstate = "idle"
  /\ buffer = LnBlank
  /\ doneSent = FALSE
  /\ fullText = ""
  /\ preambleSent = FALSE
  /\ seqNum = 0
  /\ usageData = ZeroUsage
  /\ out = <<>>
  /\ fed = <<>>
  /\ wire = <<>>
  /\ whole = <<>>
  /\ rawLines = <<>>
  /\ sessions = [s \in TwoCalls |-> IdleSession]
  /\ input = <<>>
  /\ result = ""

\* handleStreamingCompletion / handleStreamingResponsesViaCompletions of call
\* s makes its identifiers and pipes the backend body
SessionOpen(s) ==
  /\ sessions[s].tstate = "idle"
  /\ \E h \in Handlers, start \in Starts :
       sessions' = Store(sessions, s,
                     [IdleSession EXCEPT !.handler = h, !.tstate = "open",
                                         !.id = start.id, !.item = start.item,
                                         !.created = start.now,
                                         !.model = start.model])
  /\ UNCHANGED <<server, transcoder, bytes, pure>>

\* transform(chunk) of call s
SessionTransform(s) ==
  /\ sessions[s].tstate = "open"
  /\ Len(sessions[s].fed) < MaxSessionLines
  /\ \E line \in SessionLines, fresh \in Starts :
       sessions' = Store(sessions, s, SessionStep(sessions[s], fresh, line))
  /\ UNCHANGED <<server, transcoder, bytes, pure>>

\* flush(controller) of call s
SessionFlush(s) ==
  /\ sessions[s].tstate = "open"
  /\ \E fresh \in Starts :
       sessions' = Store(sessions, s, SessionEnd(sessions[s], fresh))
  /\ UNCHANGED <<server, transcoder, bytes, pure>>

SessionNext ==
  \E s \in TwoCalls : SessionOpen(s) \/ SessionTransform(s) \/ SessionFlush(s)
SessionSpec == SessionInit /\ [][SessionNext]_vars

\* ---------------------------------------------------------- formatMessages
\* how many messages a request has at most
MaxMessages == 2

\* m.content as a string, as a list of content blocks, as null or undefined
Str(text) == [kind |-> "string", text |-> text, blocks |-> <<>>]
List(blocks) == [kind |-> "list", text |-> "", blocks |-> blocks]
Nullish == [kind |-> "null", text |-> "", blocks |-> <<>>]

\* content blocks: text blocks and one other type (its text is undefined,
\* which join writes as the empty string)
TextBlock(text) == [type |-> "text", text |-> text]
ImageBlock == [type |-> "image_url", text |-> ""]

Roles == {"system", "user", "assistant", "tool"}

Contents ==
  { Str("hi"), Str(""), Nullish, List(<<ImageBlock>>),
    List(<<TextBlock("a"), ImageBlock, TextBlock("b")>>) }

Messages == [role : Roles, content : Contents]

\* the message lists a request can bring
MessageLists == UNION {[1..n -> Messages] : n \in 0..MaxMessages}

\* Array.prototype.join(sep) on strings
RECURSIVE ArrayJoin(_, _)
ArrayJoin(parts, sep) ==
  IF parts = <<>> THEN ""
  ELSE IF Len(parts) = 1 THEN parts[1]
  ELSE parts[1] \o sep \o ArrayJoin(Tail(parts), sep)

\* a content list with every block kept
BlockKeptAny(b) == TRUE

\* .filter((b) => b.type === "text")
BlockKept(b) == b.type = "text"

\* the first branch of the map callback: the content as one string
ContentText(content) ==
  IF content.kind = "string" THEN content.text
  ELSE IF content.kind = "list"
  THEN LET kept == SelectSeq(content.blocks, BlockKept)
       IN ArrayJoin([i \in 1..Len(kept) |-> kept[i].text], "\n")
  ELSE ""

\* switch (m.role)
RoleBlock(role, content) ==
  CASE role = "system" -> "[System Instructions]\n" \o content
    [] role = "assistant" -> "[Assistant]\n" \o content
    [] role = "user" -> "[User]\n" \o content
    [] OTHER -> content

formatMessages(messages) ==
  ArrayJoin([i \in 1..Len(messages) |->
               RoleBlock(messages[i].role, ContentText(messages[i].content))],
            "\n\n")

\* the result of a function that was not called yet / that returned value
NotCalled == [fn |-> "none", value |-> ""]
Returned(fn, value) == [fn |-> fn, value |-> value]

FormatInit ==
  /\ pc = [c \in Ids |-> "new"]
  /\ req = [c \in Ids |-> NoReq]
  /\ attempt = [c \in Ids |-> 0]
  /\ polls = [c \in Ids |-> 0]
  /\ waitMs = [c \in Ids |-> 0]
  /\ queue = <<>>
  /\ reply = [c \in Ids |-> Pending]
  /\ body = [c \in Ids |-> "none"]
  /\ nBusy = [c \in Ids |-> 0]
  /\ allBusy = [c \in Ids |-> FALSE]
  /\ trace = <<>>
  /\ handler = "none"
  /\ tstate = "idle"
  /\ buffer = LnBlank
  /\ doneSent = FALSE
  /\ fullText = ""
  /\ preambleSent = FALSE
  /\ seqNum = 0
  /\ usageData = ZeroUsage
  /\ out = <<>>
  /\ fed = <<>>
  /\ wire = <<>>
  /\ whole = <<>>
  /\ rawLines = <<>>
  /\ sessions = <<>>
  /\ input \in MessageLists
  /\ result = NotCalled

\* const prompt = formatMessages(messages)
Format ==
  /\ result = NotCalled
  /\ result' = Returned("formatMessages", formatMessages(input))
  /\ UNCHANGED <<server, transcoder, bytes, sessions, input>>

FormatNext == Format
FormatSpec == FormatInit /\ [][FormatNext]_vars

\* ------------------------------------------------- the plugin's fetch hook
PROXY_BASE == "http://localhost:4100"

\* how many path segments a request URL has at most
MaxSegments == 3

\* what stands before the path: nothing (a relative URL), a broken baseURL,
\* the proxy itself, another host
Origins == {"", "undefined", "http://localhost:4100", "https://api.example.com"}

Segments == {"/v1", "/chat", "/completions", "/models", "/responses", "/v2"}

\* the request URLs the SDK can produce
Urls ==
  { origin \o ArrayJoin(path, "") :
      origin \in Origins, path \in UNION {[1..n -> Segments] : n \in 0..MaxSegments} }

\* s.startsWith(p, at), at counted from 0
StartsAt(s, p, at) ==
  at + Len(p) <= Len(s) /\ SubSeq(s, at + 1, at + Len(p)) = p

\* s.indexOf(p)
IndexOf(s, p) ==
  IF \E at \in 0..Len(s) : StartsAt(s, p, at)
  THEN CHOOSE at \in 0..Len(s) :
         StartsAt(s, p, at) /\ \A b \in 0..(at - 1) : ~StartsAt(s, p, b)
  ELSE -1

\* s.substring(from)
Substring(s, from) == SubSeq(s, from + 1, Len(s))

\* the alternatives of the pattern, in the order the pattern tries them
Alternatives == <<"chat/completions", "models", "completions", "responses">>

\* the alternatives that match s right after the slash at position at
AltsAt(s, at) ==
  {k \in 1..Len(Alternatives) : StartsAt(s, "/" \o Alternatives[k], at)}

\* rawUrl.match(/\/(chat\/completions|models|completions|responses)(.*)/):
\* the leftmost position where an alternative matches, the first such
\* alternative there, and the rest of the string (a URL has no line breaks)
Match(s) ==
  IF \E at \in 0..Len(s) : AltsAt(s, at) # {}
  THEN LET at == CHOOSE a \in 0..Len(s) :
                   AltsAt(s, a) # {} /\ \A b \in 0..(a - 1) : AltsAt(s, b) = {}
           k == CHOOSE j \in AltsAt(s, at) : \A i \in AltsAt(s, at) : j <= i
       IN [found |-> TRUE, one |-> Alternatives[k],
           two |-> Substring(s, at + 1 + Len(Alternatives[k]))]
  ELSE [found |-> FALSE, one |-> "", two |-> ""]

\* a URL without a known path sent out as it came
LastResortAsGiven(rawUrl) == rawUrl

\* Last resort: just send to proxy base
LastResort(rawUrl) == PROXY_BASE \o "/v1/chat/completions"

\* targetUrl of the fetch hook
TargetUrl(rawUrl) ==
  LET v1Idx == IndexOf(rawUrl, "/v1")
      pathMatch == Match(rawUrl)
  IN IF v1Idx # -1 THEN PROXY_BASE \o Substring(rawUrl, v1Idx)
     ELSE IF pathMatch.found
     THEN PROXY_BASE \o "/v1/" \o pathMatch.one \o pathMatch.two
     ELSE LastResort(rawUrl)

RewriteInit ==
  /\ pc = [c \in Ids |-> "new"]
  /\ req = [c \in Ids |-> NoReq]
  /\ attempt = [c \in Ids |-> 0]
  /\ polls = [c \in Ids |-> 0]
  /\ waitMs = [c \in Ids |-> 0]
  /\ queue = <<>>
  /\ reply = [c \in Ids |-> Pending]
  /\ body = [c \in Ids |-> "none"]
  /\ nBusy = [c \in Ids |-> 0]
  /\ allBusy = [c \in Ids |-> FALSE]
  /\ trace = <<>>
  /\ handler = "none"
  /\ tstate = "idle"
  /\ buffer = LnBlank
  /\ doneSent = FALSE
  /\ fullText = ""
  /\ preambleSent = FALSE
  /\ seqNum = 0
  /\ usageData = ZeroUsage
  /\ out = <<>>
  /\ fed = <<>>
  /\ wire = <<>>
  /\ whole = <<>>
  /\ rawLines = <<>>
  /\ sessions = <<>>
  /\ input \in Urls
  /\ result = NotCalled

\* the hook is called with input and calls fetch(targetUrl, ...)
Rewrite ==
  /\ result = NotCalled
  /\ result' = Returned("fetch", TargetUrl(input))
  /\ UNCHANGED <<server, transcoder, bytes, sessions, input>>

RewriteNext == Rewrite
RewriteSpec == RewriteInit /\ [][RewriteNext]_vars

\* ------------------------------------------------ extractText on its own
\* the values of the fields extractText reads, each absent or present
EventParts == {NoPart, [part_kind |-> "text", content |-> "P"],
               [part_kind |-> "text", content |-> ""],
               [part_kind |-> "user-prompt", content |-> "P"]}

EventDeltas ==
  {NoDelta,
   [NoDelta EXCEPT !.part_delta_kind = "text", !.content_delta = "D"],
   [NoDelta EXCEPT !.type = "text_delta", !.text = "T"],
   [NoDelta EXCEPT !.part_delta_kind = "text", !.content_delta = "D", !.text = "T"]}

\* the event objects a backend line can parse to
Events ==
  { [Obj EXCEPT !.part_kind = pk, !.event_kind = ek, !.part = p, !.delta = dl,
                !.text_delta = td, !.type = ty] :
      pk \in {"", "user-prompt"}, ek \in {"", "part_start", "part_delta"},
      p \in EventParts, dl \in EventDeltas, td \in {"", "F"},
      ty \in {"", "content_block_delta"} }

ExtractInit ==
  /\ pc = [c \in Ids |-> "new"]
  /\ req = [c \in Ids |-> NoReq]
  /\ attempt = [c \in Ids |-> 0]
  /\ polls = [c \in Ids |-> 0]
  /\ waitMs = [c \in Ids |-> 0]
  /\ queue = <<>>
  /\ reply = [c \in Ids |-> Pending]
  /\ body = [c \in Ids |-> "none"]
  /\ nBusy = [c \in Ids |-> 0]
  /\ allBusy = [c \in Ids |-> FALSE]
  /\ trace = <<>>
  /\ handler = "none"
  /\ tstate = "idle"
  /\ buffer = LnBlank
  /\ doneSent = FALSE
  /\ fullText = ""
  /\ preambleSent = FALSE
  /\ seqNum = 0
  /\ usageData = ZeroUsage
  /\ out = <<>>
  /\ fed = <<>>
  /\ wire = <<>>
  /\ whole = <<>>
  /\ rawLines = <<>>
  /\ sessions = <<>>
  /\ input \in Events
  /\ result = NotCalled

\* const text = extractText(data)
Extract ==
  /\ result = NotCalled
  /\ result' = Returned("extractText", extractText(input))
  /\ UNCHANGED <<server, transcoder, bytes, sessions, input>>

ExtractNext == Extract
ExtractSpec == ExtractInit /\ [][ExtractNext]_vars

\* ------------------------------------------------------------ vocabulary
\* c was admitted (enqueued) before d
Before(c, d) == Enqueued(c) /\ Enqueued(d) /\ PosOf(c) < PosOf(d)

\* c is inside sendAndStream: submitting, opening the stream or waiting
Driving(c) == pc[c] \in {"set", "probe", "sleep", "stream"}

\* a backend submit or stream-open of c is in flight
InFlight(c) == pc[c] \in {"set", "stream"}

\* sendAndStream of c has returned or thrown
Driven(c) == pc[c] \in {"text", "returned", "rejected"}

\* the thunk is over: its promise settled, or the call of fn threw
Over(t) == ThunkState(t) \in {"fulfilled", "rejected", "threw"}

Fulfilled(v) == [state |-> "fulfilled", value |-> v]
Rejected(v) == [state |-> "rejected", value |-> v]

\* ------------------------------------------------------------------ C1
\* C1: the submit and stream-open operations of different client calls reach
\* the backend in admission order and never interleave: as long as a call is
\* inside sendAndStream (retries and idle probes included), no call admitted
\* after it has submitted anything, so at most one call is inside
\* sendAndStream and at most one submit or stream-open is in flight.
C1_BackendOpsSerialized ==
  /\ \A c \in Calls, d \in Calls :
       (Before(c, d) /\ pc[d] # "queued") => Driven(c)
  /\ Cardinality({c \in Calls : Driving(c)}) <= 1
  /\ Cardinality({c \in Calls : InFlight(c)}) <= 1

\* a second call opens its stream after the first call went through a retry
C1_Witness ==
  \E c \in Calls, d \in Calls :
    /\ Before(c, d)
    /\ pc[c] = "returned"
    /\ reply[c].value.message = MsgStillBusy
    /\ pc[d] = "stream"
    /\ attempt[d] > 0

\* ------------------------------------------------------------------ C2
\* C2: a queue slot covers the whole turn: a call submits its first prompt
\* only when the backend event stream of every call admitted before it has
\* been read to its end (is no longer open).
C2_SlotCoversStream ==
  \A c \in Calls, d \in Calls :
    (Before(c, d) /\ pc[d] # "queued") => body[c] # "open"

\* ------------------------------------------------------------------ C3
\* C3: thunks start in the order of the enqueue calls, a thunk starts only
\* when the thunk enqueued before it is over, and at most one thunk is
\* executing.
C3_ThunksInOrder ==
  /\ \A k \in 2..Len(queue) :
       ThunkState(queue[k]) # "notcalled" => Over(queue[k - 1])
  /\ Cardinality({t \in Thunks : ThunkState(t) = "running"}) <= 1

\* the third thunk runs after the first two are over
C3_Witness ==
  /\ Len(queue) >= 3
  /\ ThunkState(queue[1]) = "fulfilled"
  /\ ThunkState(queue[2]) = "rejected"
  /\ ThunkState(queue[3]) = "running"

\* ------------------------------------------------------------------ C4
\* C4: a failed thunk blocks nothing: a queued thunk whose predecessors are
\* all over (fulfilled, rejected or thrown) can start, and no thunk is
\* started before one enqueued earlier, so none is skipped.
C4_FailureDoesNotBlock ==
  /\ \A k \in 1..Len(queue) :
       ( /\ pc[queue[k]] = "queued"
         /\ \A j \in 1..(k - 1) : Over(queue[j]) )
       => CanStart(queue[k])
  /\ \A j \in 1..Len(queue), k \in 1..Len(queue) :
       (j < k /\ ThunkState(queue[k]) # "notcalled")
       => ThunkState(queue[j]) # "notcalled"

\* a thunk enqueued after two failed ones (one rejected, one thrown) ran
C4_Witness ==
  /\ Len(queue) >= 3
  /\ ThunkState(queue[1]) = "rejected"
  /\ ThunkState(queue[2]) = "threw"
  /\ ThunkState(queue[3]) = "fulfilled"

\* ------------------------------------------------------------------ C5
\* C5: the promise enqueue returned carries the outcome of its own thunk
\* and nothing else: fulfilled with the thunk's value, rejected with the
\* thunk's error, and pending as long as the thunk's promise has not settled,
\* whatever happened to the other thunks.
C5_OwnOutcome ==
  \A t \in Thunks :
    CASE ThunkState(t) = "fulfilled" -> reply[t] = Fulfilled(ThunkValue(t))
      [] ThunkState(t) = "rejected" -> reply[t] = Rejected(ThunkError(t))
      [] OTHER -> reply[t] = Pending

\* a thunk is fulfilled after an earlier one was rejected
C5_Witness ==
  /\ Len(queue) >= 2
  /\ reply[queue[1]] = Rejected(ThunkError(queue[1]))
  /\ reply[queue[2]] = Fulfilled(ThunkValue(queue[2]))

\* --------------------------------------------- vocabulary of one turn
SetIdx == {i \in 1..Len(trace) : trace[i].op = "set"}
StreamIdx == {i \in 1..Len(trace) : trace[i].op = "stream"}

\* the n-th stream-open of the turn
StreamAt(n) ==
  CHOOSE i \in StreamIdx : Cardinality({j \in StreamIdx : j < i}) = n - 1

FailedSet(i) == trace[i].op = "set" /\ ~IsOk(trace[i].status)
BusyStream(i) == trace[i].op = "stream" /\ trace[i].status = 409

\* attempts used up by the entries before entry i: every failed submission
\* and every busy stream-open ends one attempt
AttemptsBefore(i) ==
  Cardinality({j \in 1..(i - 1) : FailedSet(j) \/ BusyStream(j)})

\* the turn of call 1 ended with the reply v
EndedWith(v) == pc[1] = "returned" /\ reply[1] = Fulfilled(v)

\* the first stream-open was answered busy, the idle wait after it ended on
\* a successful probe, and the second stream-open was answered 200
BusyThenOpen ==
  /\ Cardinality(StreamIdx) >= 2
  /\ trace[StreamAt(1)].status = 409
  /\ trace[StreamAt(1) + 1].op = "wait"
  /\ trace[StreamAt(1) + 1].idle
  /\ trace[StreamAt(2)].status = 200

\* two submissions of one and the same prompt, then the stream and no
\* error: a streaming call has returned the event stream to its client, a
\* non-streaming call is reading the stream or is through with it
TwoSubmissionsThenStream ==
  /\ Cardinality(SetIdx) = 2
  /\ \A i \in SetIdx : trace[i].text \in Prompts
  /\ \A i \in SetIdx, j \in SetIdx : trace[i].text = trace[j].text
  /\ \/ EndedWith(EventStream) /\ body[1] \in {"open", "ended"}
     \/ pc[1] = "text" /\ ~req[1].stream /\ body[1] = "open"
     \/ EndedWith(JsonResult) /\ body[1] = "ended"
     \/ pc[1] = "rejected" /\ body[1] = "failed"

\* ------------------------------------------------------------------ C6
\* C6 as stated: whenever the first stream-open of a turn is answered busy,
\* the following idle wait succeeds and the next stream-open succeeds, the
\* backend has received exactly two submissions of the same prompt and the
\* client gets the stream and no error.
C6_AsStated == BusyThenOpen => TwoSubmissionsThenStream

\* C6 amended: the same, for a turn all of whose prompt submissions were
\* accepted.
C6_OneResubmission ==
  (BusyThenOpen /\ \A i \in SetIdx : IsOk(trace[i].status))
  => TwoSubmissionsThenStream

\* submit, busy, idle, submit, stream: the client holds the event stream
C6_Witness ==
  /\ BusyThenOpen
  /\ \A i \in SetIdx : IsOk(trace[i].status)
  /\ EndedWith(EventStream)

\* ------------------------------------------------------------------ C7
\* C7: a turn whose stream-open was answered busy on every one of the
\* maxRetries attempts ends with the one error 'remained busy', which the
\* handler turns into the 502 proxy_error reply of that call; that reply is
\* never replaced, the queue link of the call is fulfilled, and the call
\* enqueued next can start.
C7_BusyExhausted ==
  /\ [](\A c \in Calls :
          allBusy[c] =>
            /\ pc[c] = "returned"
            /\ reply[c] = Fulfilled(ProxyError(MsgStillBusy, 0))
            /\ LinkState(PosOf(c)) = "fulfilled"
            /\ \A d \in Calls :
                 (Before(c, d) /\ PosOf(d) = PosOf(c) + 1 /\ pc[d] = "queued")
                 => CanStart(d))
  /\ [][\A c \in Calls : allBusy[c] => reply'[c] = reply[c]]_vars

\* the call enqueued after an all-busy turn got its event stream
C7_Witness ==
  \E c \in Calls, d \in Calls :
    /\ allBusy[c]
    /\ Before(c, d)
    /\ pc[d] = "returned"
    /\ reply[d] = Fulfilled(EventStream)

\* ------------------------------------------------------------------ C8
\* C8: a stream-open answered with a failure status other than busy is the
\* last backend operation of its turn: the turn has ended, no idle wait, no
\* submission and no stream-open follows, and the client's reply is the 502
\* proxy error naming that status.
C8_HardFailureEndsTurn ==
  \A i \in 1..Len(trace) :
    (trace[i].op = "stream" /\ ~IsOk(trace[i].status) /\ trace[i].status # 409)
    => /\ i = Len(trace)
       /\ EndedWith(ProxyError(MsgStreamStatus, trace[i].status))

\* a 500 from the stream-open of a retry, after a busy one
C8_Witness ==
  /\ Len(trace) >= 4
  /\ trace[Len(trace)].op = "stream"
  /\ trace[Len(trace)].status = 500
  /\ \E i \in 1..Len(trace) : BusyStream(i)
  /\ EndedWith(ProxyError(MsgStreamStatus, 500))

\* ------------------------------------------------------------------ C9
\* C9: a prompt submission that is not accepted is followed by an idle wait
\* and then by the next submission, never by a stream-open; it uses up one of
\* the maxRetries attempts; and when it is the submission of the last
\* attempt the turn ends there with the 502 'failed to send message'.
C9_FailedSubmission ==
  /\ \A i \in 1..Len(trace) :
       FailedSet(i) =>
         /\ \A j \in (i + 1)..Len(trace) :
              (\A k \in (i + 1)..(j - 1) : trace[k].op = "wait")
              => trace[j].op \in {"wait", "set"}
         /\ i < Len(trace) => trace[i + 1].op = "wait"
         /\ IF AttemptsBefore(i) = maxRetries - 1
            THEN i = Len(trace) /\ EndedWith(ProxyError(MsgSendFailed, 0))
            ELSE i = Len(trace) => (pc[1] \in {"probe", "sleep"} /\ waitMs[1] = WaitSubmit)
  /\ AttemptsBefore(Len(trace) + 1) <= maxRetries
  /\ Driving(1) =>
       attempt[1] = AttemptsBefore(Len(trace) + 1)
                    - (IF waitMs[1] = WaitSubmit THEN 1 ELSE 0)

\* four failed submissions in a row end the turn
C9_Witness ==
  /\ Cardinality({i \in 1..Len(trace) : FailedSet(i)}) = maxRetries
  /\ EndedWith(ProxyError(MsgSendFailed, 0))

\* ----------------------------------------------------------------- C10
\* C10 as stated: a generic failure status (not busy) from the prompt
\* submission is terminal: no further submission is made in that turn.
C10_AsStated ==
  \A i \in 1..Len(trace), j \in 1..Len(trace) :
    ~(i < j /\ trace[i].op = "set" /\ trace[i].status = 500 /\ trace[j].op = "set")

\* C10 amended: for the prompt submission every non-acceptance is retryable,
\* be it a busy status, a generic failure status or a transport failure: the
\* turn ends at a failed submission exactly when it was the submission of
\* the last attempt, and goes on to an idle wait otherwise.
C10_AnyFailureRetried ==
  \A i \in 1..Len(trace) :
    FailedSet(i) =>
      /\ (i = Len(trace) /\ pc[1] = "returned")
           <=> (AttemptsBefore(i) = maxRetries - 1)
      /\ (i = Len(trace) /\ AttemptsBefore(i) < maxRetries - 1)
           => pc[1] \in {"probe", "sleep"}

\* a submission answered 500 was submitted again, and the stream opened
C10_Witness ==
  /\ Len(trace) >= 4
  /\ trace[1].op = "set"
  /\ trace[1].status = 500
  /\ \E j \in 2..Len(trace) : trace[j].op = "set" /\ IsOk(trace[j].status)
  /\ EndedWith(EventStream)

\* ------------------------------------------- vocabulary of one stream
\* the backend stream has ended and flush has run
Closed(h) == handler = h /\ tstate = "closed"

\* how many events of the type the client has been sent
Count(type) == Cardinality({i \in 1..Len(out) : out[i].type = type})

Types(events) == [i \in 1..Len(events) |-> events[i].type]

\* the line is a backend event (a data line with a JSON payload)
IsEvent(line) == ~Skipped(line) /\ Parses(line)

\* the line is a backend event that signals the end of the turn
EndSignal(line) == IsEvent(line) /\ isStreamEnd(line.data)

\* the line is the upstream terminator sentinel
Sentinel(line) == ~Skipped(line) /\ IsDoneLiteral(line)

\* the line is a backend event with visible text
HasText(line) == IsEvent(line) /\ extractText(line.data) # ""

\* the text fragments of the backend events, in arrival order
RECURSIVE Fragments(_)
Fragments(lines) ==
  IF lines = <<>> THEN <<>>
  ELSE IF HasText(Head(lines))
    THEN <<extractText(Head(lines).data)>> \o Fragments(Tail(lines))
    ELSE Fragments(Tail(lines))

\* the texts carried by the events of one type, in emission order
RECURSIVE TextsOf(_, _)
TextsOf(type, events) ==
  IF events = <<>> THEN <<>>
  ELSE IF Head(events).type = type
    THEN <<Head(events).text>> \o TextsOf(type, Tail(events))
    ELSE TextsOf(type, Tail(events))

RECURSIVE Concat(_)
Concat(texts) == IF texts = <<>> THEN "" ELSE Head(texts) \o Concat(Tail(texts))

PreambleTypes ==
  <<"response.created", "response.in_progress", "response.output_item.added",
    "response.content_part.added">>

ClosingTypes ==
  <<"response.output_text.done", "response.content_part.done",
    "response.output_item.done", "response.completed">>

IsClosing(e) == \E k \in 1..Len(ClosingTypes) : e.type = ClosingTypes[k]

\* ----------------------------------------------------------------- C11
\* C11: in chat-completions streaming mode the terminator data: [DONE] is
\* never emitted twice, and once the backend stream has ended it has been
\* emitted exactly once, whatever end-of-turn events and upstream [DONE]
\* sentinels the backend sent.
C11_TerminatorOnce ==
  handler = "chat" =>
    /\ Count("[DONE]") <= 1
    /\ tstate = "closed" => Count("[DONE]") = 1

\* three end signals (events or sentinels) came in, one terminator went out
C11_Witness ==
  /\ Closed("chat")
  /\ Cardinality({i \in 1..Len(fed) : EndSignal(fed[i]) \/ Sentinel(fed[i])}) >= 3
  /\ \E i \in 1..Len(fed) : Sentinel(fed[i])
  /\ \E i \in 1..Len(fed) : EndSignal(fed[i])
  /\ Count("[DONE]") = 1

\* ----------------------------------------------------------------- C12
\* C12: in chat-completions streaming mode every terminator data: [DONE] is
\* immediately preceded by a stop chunk (empty delta, finish_reason "stop"),
\* the stop chunk is never emitted twice, and once the backend stream has
\* ended it has been emitted exactly once.
C12_TerminalPair ==
  handler = "chat" =>
    /\ \A i \in 1..Len(out) :
         out[i] = Terminator => (i > 1 /\ out[i - 1] = StopChunk)
    /\ Count("stop") <= 1
    /\ tstate = "closed" => Count("stop") = 1

\* ----------------------------------------------------------------- C13
\* C13: in chat-completions streaming mode, when the backend stream has
\* ended without any end-of-turn event and without a terminator sentinel,
\* the output ends with one stop chunk followed by data: [DONE]; and every
\* call whose backend stream has ended has been sent a terminator.
C13_SynthesizedEnd ==
  Closed("chat") =>
    /\ Count("[DONE]") >= 1
    /\ (\A i \in 1..Len(fed) : ~EndSignal(fed[i]) /\ ~Sentinel(fed[i])) =>
         /\ Len(out) >= 2
         /\ SubSeq(out, Len(out) - 1, Len(out)) = <<StopChunk, Terminator>>
         /\ Count("stop") = 1
         /\ Count("[DONE]") = 1

\* text came in, the stream closed with no end signal: stop and [DONE] went out
C13_Witness ==
  /\ Closed("chat")
  /\ \E i \in 1..Len(fed) : HasText(fed[i])
  /\ \A i \in 1..Len(fed) : ~EndSignal(fed[i]) /\ ~Sentinel(fed[i])
  /\ Len(out) >= 3
  /\ out[Len(out)] = Terminator

\* ----------------------------------------------------------------- C14
\* C14: in response-lifecycle streaming mode, once the backend stream has
\* ended exactly one response.completed event has been emitted, whatever
\* end-of-turn signals the backend sent.
C14_CompletedOnce ==
  Closed("responses") => Count("response.completed") = 1

\* ----------------------------------------------------------------- C15
\* C15: in response-lifecycle streaming mode a closing event is emitted only
\* after the preamble was sent, and a call whose backend stream has carried
\* no visible text has emitted no event at all, also after its stream ended.
C15_ClosingNeedsPreamble ==
  handler = "responses" =>
    /\ \A i \in 1..Len(out) :
         IsClosing(out[i]) =>
           /\ preambleSent
           /\ i > Len(PreambleTypes)
           /\ Types(SubSeq(out, 1, Len(PreambleTypes))) = PreambleTypes
    /\ (\A i \in 1..Len(fed) : ~HasText(fed[i])) => out = <<>>

\* a stream with an end-of-turn event and no text has ended: nothing was sent
C15_Witness ==
  /\ Closed("responses")
  /\ \E i \in 1..Len(fed) : EndSignal(fed[i])
  /\ \A i \in 1..Len(fed) : ~HasText(fed[i])
  /\ out = <<>>

\* ----------------------------------------------------------------- C16
\* C16: in response-lifecycle streaming mode the event types emitted for one
\* call are either none, or the four preamble events once, then one or more
\* response.output_text.delta, and, once the backend stream has ended (and
\* not before), the four closing events with response.completed last.
C16_EventOrder ==
  handler = "responses" =>
    \/ out = <<>>
    \/ \E n \in 1..Len(out) :
         Types(out) = PreambleTypes
                      \o [i \in 1..n |-> "response.output_text.delta"]
                      \o (IF tstate = "closed" THEN ClosingTypes ELSE <<>>)

\* two text fragments: preamble, two deltas, closing events
C16_Witness ==
  /\ Closed("responses")
  /\ Count("response.output_text.delta") = 2
  /\ Len(out) = 10
  /\ out[Len(out)].type = "response.completed"

\* ----------------------------------------------------------------- C17
\* C17: every event of a response-lifecycle call carries a sequence_number;
\* the first event has 0 and each further event has the number of the event
\* before it plus one, preamble, deltas and closing events included.
C17_SequenceNumbers ==
  handler = "responses" =>
    \A i \in 1..Len(out) : out[i].sequence_number = i - 1

\* a complete call: the last event, response.completed, has number 8 or more
C17_Witness ==
  /\ Closed("responses")
  /\ Len(out) >= 9
  /\ out[Len(out)].type = "response.completed"
  /\ out[Len(out)].sequence_number = Len(out) - 1

\* ----------------------------------------------------------------- C18
\* C18: in response-lifecycle streaming mode the text carried by each of
\* output_text.done, content_part.done, output_item.done and
\* response.completed is the concatenation, in emission order, of the delta
\* fields of all the output_text.delta events of the call.
C18_FinalText ==
  handler = "responses" =>
    \A i \in 1..Len(out) :
      IsClosing(out[i]) =>
        out[i].text = Concat(TextsOf("response.output_text.delta", out))

\* deltas "Hel" and "lo": the closing events carry "Hello"
C18_Witness ==
  /\ Closed("responses")
  /\ TextsOf("response.output_text.delta", out) = <<"Hel", "lo">>
  /\ \E i \in 1..Len(out) : out[i].type = "response.completed" /\ out[i].text = "Hello"

\* ----------------------------------------------------------------- C19
\* the counters of the last backend event with a numeric input or output
\* token count, zeros if there is none
RECURSIVE ReportedUsage(_)
ReportedUsage(lines) ==
  IF lines = <<>> THEN ZeroUsage
  ELSE LET l == lines[Len(lines)] IN
       IF IsEvent(l) /\ l.data.json = "object"
          /\ (IsNumber(l.data.input_tokens) \/ IsNumber(l.data.output_tokens))
       THEN [input_tokens |-> OrZero(l.data.input_tokens),
             output_tokens |-> OrZero(l.data.output_tokens),
             total_tokens |-> OrZero(l.data.input_tokens) + OrZero(l.data.output_tokens)]
       ELSE ReportedUsage(SubSeq(lines, 1, Len(lines) - 1))

\* C19: in response-lifecycle streaming mode the usage of response.completed
\* is that of the last backend event of the stream with a numeric input or
\* output token count (total = input + output), and all zeros only when the
\* stream had no such event.
C19_UsageReported ==
  Closed("responses") =>
    \A i \in 1..Len(out) :
      out[i].type = "response.completed" => out[i].usage = ReportedUsage(fed)

\* ----------------------------------------------------------------- C20
\* C20: in chat-completions streaming mode the content-delta chunks are, in
\* order and verbatim, the text fragments of the backend events gone
\* through: one chunk per fragment, none merged, dropped, doubled or moved;
\* every other chunk is the stop chunk or the terminator; and the events
\* 'Hel', 'lo', usage give the chunks 'Hel', 'lo', the stop chunk, [DONE].
C20_ChunksAreFragments ==
  handler = "chat" =>
    /\ TextsOf("content", out) = Fragments(fed)
    /\ \A i \in 1..Len(out) : out[i].type \in {"content", "stop", "[DONE]"}
    /\ fed = <<LnHel, LnLo, LnUsage>> =>
         out = <<ContentChunk("Hel"), ContentChunk("lo"), StopChunk, Terminator>>

\* the stream 'Hel', 'lo', usage has ended
C20_Witness ==
  /\ Closed("chat")
  /\ fed = <<LnHel, LnLo, LnUsage>>
  /\ out = <<ContentChunk("Hel"), ContentChunk("lo"), StopChunk, Terminator>>

\* ----------------------------------------------------------------- C21
\* C21: in chat-completions streaming mode the terminator data: [DONE] ends
\* the client stream: once it has been emitted nothing is emitted after it,
\* no content chunk, no stop chunk and no second terminator, whatever the
\* backend sends afterwards.
C21_NothingAfterTerminator ==
  handler = "chat" =>
    \A i \in 1..Len(out) : out[i] = Terminator => i = Len(out)

\* ----------------------------------------------------------------- C22
\* the text of the lines, each with its newline
RECURSIVE Join(_)
Join(texts) ==
  IF texts = <<>> THEN "" ELSE Head(texts) \o Newline \o Join(Tail(texts))

\* the pieces as one text
RECURSIVE Flat(_)
Flat(pieces) == IF pieces = <<>> THEN "" ELSE Head(pieces) \o Flat(Tail(pieces))

\* the body split in one go
Unsplit == SplitLines("", whole)

Parsable(lines) == SelectSeq(lines, LAMBDA l : l # LnJunk)

\* the lines that came newline-terminated, and the text the stream ended
\* with, of a stream that has ended
Terminated == IF buffer # LnBlank THEN SubSeq(fed, 1, Len(fed) - 1) ELSE fed

\* C23: a data line whose payload is no JSON is skipped silently by every
\* transcoder: the streaming handlers have sent, while the stream is open
\* and when it has ended, exactly what they send for the same lines with
\* the bad lines left out, the bad line neither ends the turn nor errors
\* the stream, and the non-streaming handlers aggregate the same content.
C23_BadLineSkipped ==
  /\ (handler = "chat" /\ tstate # "closed") =>
       /\ out = processSSELines(Parsable(fed), <<>>, FALSE).out
       /\ doneSent = processSSELines(Parsable(fed), <<>>, FALSE).sentDone
  /\ (handler = "responses" /\ tstate # "closed") =>
       /\ out = TransformLines(FreshClosure, Parsable(fed)).out
       /\ tstate = "open" => ~TransformLines(FreshClosure, Parsable(fed)).threw
  /\ tstate = "closed" =>
       out = OneShot(handler, Parsable(Terminated),
                     IF buffer = LnJunk THEN LnBlank ELSE buffer).out
  /\ Aggregate(fed) = Aggregate(Parsable(fed))

\* a bad line between two text events: both fragments went out, the stream
\* ended normally
C23_Witness ==
  /\ Closed("chat")
  /\ fed = <<LnHel, LnJunk, LnLo>>
  /\ TextsOf("content", out) = <<"Hel", "lo">>
  /\ Aggregate(fed) = "Hello"

\* ----------------------------------------------------------------- C24
\* C24: a client call whose body is no JSON is answered 400
\* invalid_request_error in the step it arrives in, whatever the other calls
\* are doing: it is never enqueued, drives no backend operation, and its
\* answer is final (nothing is retried).
C24_InvalidAnsweredAtOnce ==
  /\ [](\A c \in Calls :
          pc[c] = "invalid" =>
            /\ reply[c].state = "fulfilled"
            /\ reply[c].value.status = 400
            /\ reply[c].value.type = "invalid_request_error"
            /\ ~Enqueued(c)
            /\ req[c] = NoReq /\ attempt[c] = 0 /\ waitMs[c] = 0 /\ polls[c] = 0
            /\ body[c] = "none")
  /\ [][\A c \in Calls :
          /\ pc[c] = "invalid" => (pc'[c] = "invalid" /\ reply'[c] = reply[c])
          /\ (reply[c] = Pending /\ reply'[c].value.status = 400) =>
               (pc[c] = "new" /\ pc'[c] = "invalid")]_vars

\* a call was answered 400 while another call is in a retry of its turn and
\* its own answer is still pending
C24_Witness ==
  \E c \in Calls, d \in Calls :
    /\ pc[c] = "invalid"
    /\ reply[c].value.status = 400
    /\ Driving(d)
    /\ attempt[d] > 0
    /\ reply[d] = Pending

\* ----------------------------------------------------------------- C25
\* what call sess has sent when its lines are translated alone, in one go
Alone(sess) ==
  LET one == IF sess.tstate = "closed"
             THEN OneShot(sess.handler, sess.fed, LnBlank).out
             ELSE IF sess.handler = "chat"
             THEN processSSELines(sess.fed, <<>>, FALSE).out
             ELSE TransformLines(FreshClosure, sess.fed).out
  IN [i \in 1..Len(one) |->
        Stamp(sess.handler,
              [id |-> sess.id, item |-> sess.item, created |-> sess.created,
               model |-> sess.model],
              one[i])]

\* C25: with the transform and flush steps of two streaming calls interleaved
\* in any order, each call has sent exactly what it sends when its own lines
\* are translated alone: the same events with the same texts, sequence
\* numbers, preamble and closing events.
C25_SessionsIndependent ==
  \A s \in TwoCalls :
    sessions[s].tstate # "idle" => sessions[s].out = Alone(sessions[s])

\* both calls of the response lifecycle are in the middle of their streams,
\* each has sent its preamble and a delta, and one has also read usage
C25_Witness ==
  /\ \A s \in TwoCalls :
       /\ sessions[s].handler = "responses"
       /\ sessions[s].tstate = "open"
       /\ sessions[s].seqNum >= 5
  /\ sessions[1].fed = <<LnHel>>
  /\ sessions[2].fed = <<LnHel, LnUsage>>

\* ----------------------------------------------------------------- C27
\* the events of a call that carry a chunk or response id / an item id
WithId(sent) == {i \in 1..Len(sent) : sent[i].id # ""}
WithItem(sent) == {i \in 1..Len(sent) : sent[i].item # ""}

\* C27: the identifiers are made once per call. Every chunk of a
\* chat-completions call (the terminator line has none) carries one id, one
\* created timestamp and one model, those made when the handler started;
\* every event of a response-lifecycle call that names the response names the
\* same response id, and every event that names the item names the same item
\* id.
C27_IdentifiersFixed ==
  \A s \in TwoCalls :
    LET sess == sessions[s]
        sent == sess.out
    IN /\ \A i \in 1..Len(sent) :
            sent[i].ev # Terminator =>
              /\ i \in WithId(sent) \cup WithItem(sent)
              /\ sess.handler = "chat" =>
                   /\ sent[i].id = sess.id
                   /\ sent[i].created = sess.created
                   /\ sent[i].model = sess.model
       /\ \A i \in WithId(sent), j \in WithId(sent) : sent[i].id = sent[j].id
       /\ \A i \in WithItem(sent), j \in WithItem(sent) : sent[i].item = sent[j].item
       /\ \A i \in WithId(sent) : sent[i].id = sess.id
       /\ \A i \in WithItem(sent) : sent[i].item = sess.item

\* a chat call that sent three chunks and the terminator, next to a response
\* call that went through its whole lifecycle, the two started at different
\* moments
C27_Witness ==
  /\ sessions[1].handler = "chat"
  /\ sessions[1].tstate = "closed"
  /\ sessions[1].fed = <<LnHel, LnHel>>
  /\ Len(sessions[1].out) = 4
  /\ sessions[2].handler = "responses"
  /\ sessions[2].tstate = "closed"
  /\ sessions[2].fed = <<LnHel, LnUsage>>
  /\ Len(sessions[2].out) = 9
  /\ sessions[1].id # sessions[2].id
  /\ sessions[1].created # sessions[2].created

\* ----------------------------------------------------------------- C26
\* the turn is inside waitForAgentIdle
Waiting == pc[1] \in {"probe", "sleep"}

\* this step is the return of waitForAgentIdle
WaitReturned == Len(trace') = Len(trace) + 1 /\ trace'[Len(trace')].op = "wait"

\* C26: the idle wait never raises. While it runs the call's answer stays
\* pending and the only ways out are its own return; it returns from a probe
\* only when the probe succeeded, a probe answered busy, with an error status
\* or not at all is followed by the sleep (polling goes on), it returns
\* without an idle backend only after a sleep, when the time is up, and
\* whichever way it returned the driver goes on to the next submission
\* (directly, or through the wait at the loop top after the wait that follows
\* a failed submission).
C26_IdleWaitNeverRaises ==
  /\ [](Waiting => reply[1] = Pending)
  /\ [][Waiting =>
          /\ reply'[1] = Pending
          /\ pc'[1] \in {"probe", "sleep", "set"}
          /\ pc'[1] = "set" => WaitReturned
          /\ (pc[1] = "probe" /\ ~WaitReturned) => pc'[1] = "sleep"
          /\ (pc[1] = "probe" /\ WaitReturned) => trace'[Len(trace')].idle
          /\ (pc[1] = "sleep" /\ WaitReturned) => ~trace'[Len(trace')].idle
          /\ (pc[1] = "sleep" /\ ~WaitReturned) =>
               (pc'[1] = "probe" /\ polls'[1] = polls[1] + 1)]_vars
  /\ [](\A i \in 1..(Len(trace) - 1) :
          trace[i].op = "wait" =>
            \/ trace[i + 1].op = "set"
            \/ /\ trace[i + 1].op = "wait"
               /\ trace[i].ms = WaitSubmit
               /\ trace[i + 1].ms = WaitTop)

\* a wait ran out of time without an idle backend, the message was submitted
\* all the same, and a later wait ended on a successful probe
C26_Witness ==
  \E i \in 1..(Len(trace) - 1), j \in 1..Len(trace) :
    /\ trace[i].op = "wait" /\ ~trace[i].idle
    /\ trace[i + 1].op = "set"
    /\ j > i
    /\ trace[j].op = "wait" /\ trace[j].idle

\* ----------------------------------------------------------------- C30
\* entry i of the history is a return of waitForAgentIdle
IsWait(i) == trace[i].op = "wait"

\* what the history of a turn always satisfies: it starts with a submission,
\* a stream-open follows an accepted submission only, after a busy
\* stream-open comes one wait of 30 s and then a submission, and nothing
\* follows any other stream-open
TurnShape ==
  /\ trace # <<>> => trace[1].op = "set"
  /\ \A i \in 1..(Len(trace) - 1) :
       /\ trace[i].op = "set" /\ IsOk(trace[i].status) => trace[i + 1].op = "stream"
       /\ trace[i].op = "stream" => BusyStream(i)
       /\ BusyStream(i) => IsWait(i + 1) /\ trace[i + 1].ms = WaitTop
       /\ FailedSet(i) => IsWait(i + 1) /\ trace[i + 1].ms = WaitSubmit
       /\ IsWait(i) /\ trace[i].ms = WaitTop => trace[i + 1].op = "set"

\* C30 as stated: one idle-wait, then the next submission, after a failed
\* submission as after a busy stream-open; none before the first submission.
C30_OneWaitBeforeResubmission ==
  /\ TurnShape
  /\ \A i \in 1..(Len(trace) - 2) :
       FailedSet(i) => trace[i + 2].op = "set"

\* C30, amended: the first submission of a turn is preceded by no idle-wait;
\* between a busy stream-open and the next submission there is exactly one
\* idle-wait (30 s); between a failed submission and the next submission
\* there are exactly two, the wait of 15 s that follows the failure and the
\* wait of 30 s at the top of the next attempt.
C30_WaitsBeforeResubmission ==
  /\ TurnShape
  /\ \A i \in 1..(Len(trace) - 2) :
       FailedSet(i) => /\ IsWait(i + 2)
                       /\ trace[i + 2].ms = WaitTop
                       /\ (i + 3 <= Len(trace) => trace[i + 3].op = "set")

\* a submission failed, both waits returned and the message went out again;
\* in the same turn a stream-open was answered busy and one wait later the
\* message went out once more
C30_Witness ==
  \E i \in 1..Len(trace), j \in 1..Len(trace) :
    /\ i + 3 <= Len(trace)
    /\ FailedSet(i) /\ IsWait(i + 1) /\ IsWait(i + 2) /\ trace[i + 3].op = "set"
    /\ j + 2 <= Len(trace)
    /\ BusyStream(j) /\ IsWait(j + 1) /\ trace[j + 2].op = "set"

\* ----------------------------------------------------------------- C28
\* the header lines of the three roles the prompt names
HeaderOf(role) ==
  CASE role = "system" -> "[System Instructions]"
    [] role = "user" -> "[User]"
    [] role = "assistant" -> "[Assistant]"
    [] OTHER -> ""

Headers == {HeaderOf("system"), HeaderOf("user"), HeaderOf("assistant")}

\* the text a content stands for: the string itself, the texts of the text
\* blocks of a list one per line, nothing for null
RECURSIVE BlockTexts(_)
BlockTexts(blocks) ==
  IF blocks = <<>> THEN <<>>
  ELSE IF Head(blocks).type = "text"
  THEN <<Head(blocks).text>> \o BlockTexts(Tail(blocks))
  ELSE BlockTexts(Tail(blocks))

RECURSIVE Lined(_)
Lined(texts) ==
  IF texts = <<>> THEN ""
  ELSE IF Tail(texts) = <<>> THEN Head(texts)
  ELSE Head(texts) \o "\n" \o Lined(Tail(texts))

TextOf(content) ==
  CASE content.kind = "string" -> content.text
    [] content.kind = "list" -> Lined(BlockTexts(content.blocks))
    [] OTHER -> ""

\* the blocks of the messages from k on under the headers hs, one blank line
\* between two blocks; an empty header stands for no header line
RECURSIVE Prompt(_, _, _)
Prompt(messages, hs, k) ==
  IF k > Len(messages) THEN ""
  ELSE (IF hs[k] = "" THEN "" ELSE hs[k] \o "\n")
       \o TextOf(messages[k].content)
       \o (IF k < Len(messages) THEN "\n\n" ELSE "")
       \o Prompt(messages, hs, k + 1)

Formatted == result.fn = "formatMessages"

\* C28 as stated: every message is rendered under one of the three role
\* headers (its own for system, user and assistant), followed by its content,
\* the messages in input order with one blank line between them.
C28_EveryMessageUnderHeader ==
  Formatted =>
    \E hs \in [1..Len(input) -> Headers] :
      /\ \A k \in 1..Len(input) :
           input[k].role \in {"system", "user", "assistant"} =>
             hs[k] = HeaderOf(input[k].role)
      /\ result.value = Prompt(input, hs, 1)

\* C28, amended: formatMessages renders the messages in input order and
\* joins them with one blank line; a message of role system, user or
\* assistant is its header line ([System Instructions], [User], [Assistant])
\* followed by its content, a message of any other role is its content alone,
\* without a header line; a content list contributes the texts of its text
\* blocks only, one per line; [{role: "user", content: "hi"}] gives
\* "[User]\nhi".
C28_FormatMessages ==
  Formatted =>
    /\ result.value = Prompt(input, [k \in 1..Len(input) |-> HeaderOf(input[k].role)], 1)
    /\ input = <<[role |-> "user", content |-> Str("hi")]>> =>
         result.value = "[User]\nhi"

\* a system message with a plain string followed by a user message whose
\* content list has two text blocks around an image block
C28_Witness ==
  /\ Formatted
  /\ input = <<[role |-> "system", content |-> Str("hi")],
               [role |-> "user",
                content |-> List(<<TextBlock("a"), ImageBlock, TextBlock("b")>>)]>>
  /\ result.value = "[System Instructions]\nhi\n\n[User]\na\nb"

\* ----------------------------------------------------------------- C29
Rewritten == result.fn = "fetch"

\* C29: whatever the request URL (absolute, relative, with a broken base),
\* the URL the hook fetches is the proxy base http://localhost:4100 followed
\* by a path that begins with /v1; the three URLs the code names all go to
\* http://localhost:4100/v1/chat/completions.
C29_RewrittenToProxy ==
  Rewritten =>
    /\ StartsAt(result.value, "http://localhost:4100/v1", 0)
    /\ input \in {"http://localhost:4100/v1/chat/completions",
                  "undefined/chat/completions", "/v1/chat/completions"} =>
         result.value = "http://localhost:4100/v1/chat/completions"

\* a URL with a broken base and no /v1, rewritten by the path pattern
C29_Witness ==
  /\ Rewritten
  /\ input = "undefined/chat/completions"
  /\ result.value = "http://localhost:4100/v1/chat/completions"

\* ----------------------------------------------------------------- C31
\* the submissions of the turn that the backend accepted
AcceptedIdx == {i \in SetIdx : IsOk(trace[i].status)}

\* C31: in one turn the backend gets at most maxRetries submissions and at
\* most maxRetries stream-opens, never more stream-opens than accepted
\* submissions, and every stream-open comes directly after the accepted
\* submission of its attempt.
C31_AttemptsBounded ==
  /\ Cardinality(SetIdx) <= maxRetries
  /\ Cardinality(StreamIdx) <= maxRetries
  /\ Cardinality(StreamIdx) <= Cardinality(AcceptedIdx)
  /\ \A i \in StreamIdx : i > 1 /\ (i - 1) \in AcceptedIdx

\* a turn that used its whole budget: four accepted submissions, four
\* stream-opens answered busy, and the turn is over
C31_Witness ==
  /\ Cardinality(SetIdx) = maxRetries
  /\ Cardinality(StreamIdx) = maxRetries
  /\ \A i \in StreamIdx : BusyStream(i)
  /\ pc[1] = "returned"

\* ----------------------------------------------------------------- C32
\* STREAMING: sendAndStream returned a successful response with a body, which
\* the handler pipes to the client or reads to its end
Streaming(c) ==
  \/ pc[c] = "text"
  \/ pc[c] = "returned" /\ reply[c] = Settle("fulfilled", EventStream)

\* FAILED: the caller was given a proxy error
Failed(c) ==
  /\ pc[c] = "returned"
  /\ reply[c].state = "fulfilled"
  /\ reply[c].value.type = "proxy_error"

\* C32: a turn that has started reaches STREAMING or FAILED, whatever the
\* backend answers, as long as every backend call and every sleep of the idle
\* wait returns.
C32_TurnTerminates == Driving(1) ~> (Streaming(1) \/ Failed(1))

\* the turn of a streaming call ended in STREAMING
C32_Witness ==
  /\ Streaming(1)
  /\ pc[1] = "returned"
  /\ body[1] = "open"

\* ----------------------------------------------------------------- C34
\* the last backend operation of the turn
LastOp == trace[Len(trace)]

\* C34: sendAndStream never hands a busy response to its caller. Once it is
\* over, the handler has a successful response, or a failure response whose
\* status (which the handler reports) is not 409, or one of the two raised
\* errors; a turn whose last operation was a stream-open answered busy used
\* its last attempt and ended in the raised 'remained busy' error.
C34_BusyNeverReturned ==
  Driven(1) =>
    /\ trace # <<>>
    /\ reply[1].value.upstream # 409
    /\ \/ /\ LastOp.op = "stream" /\ IsOk(LastOp.status)
          /\ \/ pc[1] = "text"
             \/ reply[1].value \in {EventStream, JsonResult, BodyReadError}
             \/ reply[1] = Fulfilled(ProxyError(MsgStreamStatus, LastOp.status))
                /\ ~HasBody(LastOp.status)
       \/ /\ LastOp.op = "stream" /\ ~IsOk(LastOp.status) /\ LastOp.status # 409
          /\ reply[1] = Fulfilled(ProxyError(MsgStreamStatus, LastOp.status))
       \/ /\ BusyStream(Len(trace))
          /\ AttemptsBefore(Len(trace)) = maxRetries - 1
          /\ reply[1] = Fulfilled(ProxyError(MsgStillBusy, 0))
       \/ /\ FailedSet(Len(trace))
          /\ reply[1] = Fulfilled(ProxyError(MsgSendFailed, 0))

\* the last attempt of a turn ended on a busy stream-open, after an earlier
\* attempt was lost to a failed submission: the caller got 'remained busy'
C34_Witness ==
  /\ Driven(1)
  /\ trace # <<>>
  /\ BusyStream(Len(trace))
  /\ \E i \in 1..Len(trace) : FailedSet(i)
  /\ reply[1].value.message = MsgStillBusy

\* ----------------------------------------------------------------- C33
\* C33: the promise enqueue returned for a thunk settles once the thunk is
\* over (its promise settled, or the call of the thunk raised), the earlier
\* thunks being over as well.
C33_EnqueueSettles ==
  \A t \in Thunks :
    (Enqueued(t) /\ \A k \in 1..PosOf(t) : Over(queue[k])) ~> (reply[t] # Pending)

\* ----------------------------------------------------------------- C35
\* the line ends the turn without bringing text: an end-of-turn event with no
\* text, or the upstream sentinel
BareEnd(line) == Sentinel(line) \/ (EndSignal(line) /\ ~HasText(line))

\* the lines the step has read
NewLines == SubSeq(fed', Len(fed) + 1, Len(fed'))

NonObject(line) == IsEvent(line) /\ line.data.json # "object"

\* the lines with every non-object payload replaced by one that does not
\* parse
AsUnparsable(lines) ==
  [i \in 1..Len(lines) |-> IF NonObject(lines[i]) THEN LnJunk ELSE lines[i]]

\* C36: a data line whose payload is JSON but no event object is treated
\* like an unparsable line by both streaming transcoders: reading lines
\* never aborts the client stream (only the loss of the backend connection
\* does), and while the stream is open the output is the one for the same
\* lines with the non-object payloads made unparsable.
C36_NonObjectSkipped ==
  /\ [][(tstate = "open" /\ tstate' = "errored") => fed' = fed]_vars
  /\ []((handler = "chat" /\ tstate = "open") =>
          out = processSSELines(AsUnparsable(fed), <<>>, FALSE).out)
  /\ []((handler = "responses" /\ tstate = "open") =>
          out = TransformLines(FreshClosure, AsUnparsable(fed)).out)

\* ----------------------------------------------------------------- C38
Extracted == result.fn = "extractText"

\* the rules of extractText after the echo rule, each as its condition
PartStartRule(data) == data.event_kind = "part_start" /\ data.part.part_kind = "text"
PartDeltaRule(data) == data.event_kind = "part_delta" /\ data.delta.part_delta_kind = "text"
TextDeltaRule(data) == data.text_delta # ""

\* C38: the rules of extractText apply in priority order and the first one
\* that matches decides. An event tagged user-prompt at its top level yields
\* no text, whatever part, delta or text_delta fields it carries; otherwise a
\* text part start yields the part's content, otherwise a text part delta
\* its content_delta, otherwise a top-level text_delta that text, otherwise
\* delta.text if there is one.
C38_FirstRuleWins ==
  Extracted =>
    /\ input.part_kind = "user-prompt" => result.value = ""
    /\ input.part_kind # "user-prompt" =>
         /\ PartStartRule(input) => result.value = input.part.content
         /\ (~PartStartRule(input) /\ PartDeltaRule(input)) =>
              result.value = input.delta.content_delta
         /\ (~PartStartRule(input) /\ ~PartDeltaRule(input) /\ TextDeltaRule(input)) =>
              result.value = input.text_delta
         /\ (~PartStartRule(input) /\ ~PartDeltaRule(input) /\ ~TextDeltaRule(input)) =>
              result.value = input.delta.text

\* an echo event that a part-start rule, a part-delta rule and both fallback
\* rules would match gave no text
C38_Witness ==
  /\ Extracted
  /\ input.part_kind = "user-prompt"
  /\ input.event_kind = "part_start"
  /\ input.part = [part_kind |-> "text", content |-> "P"]
  /\ input.delta.content_delta = "D" /\ input.delta.text = "T"
  /\ input.text_delta = "F"
  /\ result.value = ""

\* ----------------------------------------------------------------- C37
\* the lines of the whole body as fullText.split("\n") gives them
BodySplit == DecodeAll(Unsplit.parts \o <<Unsplit.last>>)

\* the type of the events that carry text in the two streaming modes
DeltaType(h) == IF h = "chat" THEN "content" ELSE "response.output_text.delta"

\* C37: for one backend body the streaming and the non-streaming variants
\* give the same text: when the client stream of either streaming handler is
\* over, the concatenation of its content deltas is the content both
\* non-streaming handlers aggregate from that body, whether or not the last
\* line of the body ends with a newline.
C37_SameText ==
  tstate \in {"closed", "errored"} =>
    Concat(TextsOf(DeltaType(handler), out)) = Aggregate(BodySplit)

====
